---- MODULE Spec2Model ----
(***************************************************************************)
(* Model of the detection-and-decision engine of the APA multi-page table  *)
(* title fixer: title extraction (TABLE_TITLE_PATTERN, PDFAnalyzer),       *)
(* repetition grouping (find_consecutive_repetitions) and modification     *)
(* planning (TableTitleRule.analyze), with the format reductions and the   *)
(* format resolver of FormatAnalyzer and the write path of PDFModifier,    *)
(* the input validators, the progress notifications of analyze and the    *)
(* handlers and worker threads of the main window of the GUI.             *)
(*                                                                         *)
(* Text is a sequence of one-character strings, so that the regular        *)
(* expression, str.strip, str.capitalize and the f-strings are computed    *)
(* character by character.                                                 *)
(***************************************************************************)
EXTENDS Integers, Sequences, FiniteSets, TLC

VARIABLES
    pc,              \* "input" while the input is built, then the outcome
    doc,             \* the document: one text per page (page k is doc[k])
    tables,          \* PDFAnalyzer.tables / the occurrence list
    found,           \* the re.Match objects behind `tables`, same order
    repetitions,     \* result of find_consecutive_repetitions
    modifications,   \* result of _create_modifications
    result,          \* the value the operation returns, or NoResult
    given_formats,   \* the FormatInfo values handed to the operation
    backend,         \* what the PDF backend answers during the operation
    handles,         \* number of document handles open
    written,         \* the write calls made on the document, and its save
    window,          \* MainWindow: its fields and the state of its widgets
    threads,         \* the worker threads of the GUI that are running
    events           \* the callbacks queued for the UI thread by self.after

gui_vars == <<window, threads, events>>

vars == <<pc, doc, tables, found, repetitions, modifications, result,
          given_formats, backend, handles, written, window, threads,
          events>>

-----------------------------------------------------------------------------
(* Bounds *)

MaxTail == 5        \* characters after the word of an extractor text
MaxTables == 4      \* occurrences handed to find_consecutive_repetitions
MaxPage == 5        \* largest page number of a handed occurrence
MaxPages == 3       \* pages of an analysed document
MaxLines == 2       \* lines per page of an analysed document
MaxFormats == 4     \* formats handed to the reductions
MaxOccurrences == 22  \* occurrences of a document judged for uniformity

-----------------------------------------------------------------------------
(* Characters and strings *)

UpperChars ==
    <<"A","B","C","D","E","F","G","H","I","J","K","L","M",
      "N","O","P","Q","R","S","T","U","V","W","X","Y","Z">>

LowerChars ==
    <<"a","b","c","d","e","f","g","h","i","j","k","l","m",
      "n","o","p","q","r","s","t","u","v","w","x","y","z">>

DigitChars == <<"0","1","2","3","4","5","6","7","8","9">>

\* \s of the regular expression and the characters str.strip removes
Whitespace == {" ", "\n", "\t"}

IsSpace(c) == c \in Whitespace

Digits == {DigitChars[i] : i \in 1..10}

IsDigit(c) == c \in Digits

\* the characters texts are written in
Alphabet ==
    {UpperChars[i] : i \in 1..26} \cup {LowerChars[i] : i \in 1..26}
        \cup Digits \cup Whitespace \cup {".", "(", ")", "/"}

LowerTable ==
    [c \in Alphabet |->
        IF \E i \in 1..26 : UpperChars[i] = c
        THEN LowerChars[CHOOSE i \in 1..26 : UpperChars[i] = c]
        ELSE c]

UpperTable ==
    [c \in Alphabet |->
        IF \E i \in 1..26 : LowerChars[i] = c
        THEN UpperChars[CHOOSE i \in 1..26 : LowerChars[i] = c]
        ELSE c]

\* str.lower on one character
Lower(c) == LowerTable[c]

\* str.upper on one character
Upper(c) == UpperTable[c]

\* str.capitalize: first character upper-cased, the rest lower-cased
Capitalize(s) ==
    [i \in 1..Len(s) |-> IF i = 1 THEN Upper(s[i]) ELSE Lower(s[i])]

\* s[a:b] with 1-based inclusive start a and exclusive end b
Slice(s, a, b) == IF b <= a THEN <<>> ELSE SubSeq(s, a, b - 1)

\* str.startswith at an offset: w occurs in s at index a
OccursAt(s, w, a) ==
    /\ a >= 1
    /\ a + Len(w) - 1 <= Len(s)
    /\ \A i \in 1..Len(w) : s[a + i - 1] = w[i]

\* str.find: 1-based index of the first occurrence of w in s, 0 if none
Find(s, w) ==
    IF \E a \in 1..(Len(s) + 1) : OccursAt(s, w, a)
    THEN CHOOSE a \in 1..(Len(s) + 1) :
            /\ OccursAt(s, w, a)
            /\ \A b \in 1..(a - 1) : ~OccursAt(s, w, b)
    ELSE 0

\* str.strip
Strip(s) ==
    IF \A i \in 1..Len(s) : IsSpace(s[i])
    THEN <<>>
    ELSE LET a == CHOOSE i \in 1..Len(s) :
                    /\ ~IsSpace(s[i])
                    /\ \A j \in 1..(i - 1) : IsSpace(s[j])
             b == CHOOSE i \in 1..Len(s) :
                    /\ ~IsSpace(s[i])
                    /\ \A j \in (i + 1)..Len(s) : IsSpace(s[j])
         IN  SubSeq(s, a, b)

\* re.sub(r'\s+', ' ', s): every maximal run of whitespace becomes one space
RECURSIVE CollapseFrom(_, _)
CollapseFrom(s, i) ==
    IF i > Len(s) THEN <<>>
    ELSE IF IsSpace(s[i])
         THEN IF i > 1 /\ IsSpace(s[i - 1])
              THEN CollapseFrom(s, i + 1)
              ELSE <<" ">> \o CollapseFrom(s, i + 1)
         ELSE <<s[i]>> \o CollapseFrom(s, i + 1)

CollapseSpaces(s) == CollapseFrom(s, 1)

\* str(n) for a natural number n
RECURSIVE IntToStr(_)
IntToStr(n) ==
    IF n < 10 THEN <<DigitChars[n + 1]>>
    ELSE IntToStr(n \div 10) \o <<DigitChars[(n % 10) + 1]>>

-----------------------------------------------------------------------------
(* TABLE_TITLE_PATTERN:                                                    *)
(*   (Cuadro|Tabla)\s+(\d+)(?:\.|\s+)([^\n]+?)(?:\n|$)                     *)
(* compiled with re.IGNORECASE | re.MULTILINE                              *)

TypeWords == << <<"c","u","a","d","r","o">>, <<"t","a","b","l","a">> >>

NoMatch == [start |-> 0]

\* first index >= i whose character is not whitespace (Len+1 if none)
RECURSIVE SkipSpaces(_, _)
SkipSpaces(t, i) ==
    IF i <= Len(t) /\ IsSpace(t[i]) THEN SkipSpaces(t, i + 1) ELSE i

\* first index >= i whose character is not a digit (Len+1 if none)
RECURSIVE SkipDigits(_, _)
SkipDigits(t, i) ==
    IF i <= Len(t) /\ IsDigit(t[i]) THEN SkipDigits(t, i + 1) ELSE i

\* first index >= i that is a line end: a newline or the end of the text
RECURSIVE LineEnd(_, _)
LineEnd(t, i) ==
    IF i <= Len(t) /\ t[i] # "\n" THEN LineEnd(t, i + 1) ELSE i

\* The tail ([^\n]+?)(?:\n|$) tried with group 3 starting at d: the lazy
\* group takes the rest of the line, which must be non-empty, and the final
\* alternative consumes the newline when there is one.
TailOK(t, d) == d <= Len(t) /\ t[d] # "\n"

\* The separator (?:\.|\s+) tried at index n, followed by the tail: the
\* index where group 3 starts, 0 when neither alternative leads to a match.
\* The period is tried first; the greedy \s+ gives back characters until
\* the tail matches.
SeparatorEnd(t, n) ==
    IF n > Len(t) THEN 0
    ELSE IF t[n] = "." /\ TailOK(t, n + 1) THEN n + 1
    ELSE IF IsSpace(t[n])
         THEN LET r == SkipSpaces(t, n)
                  cands == {d \in (n + 1)..r : TailOK(t, d)}
              IN  IF cands = {} THEN 0
                  ELSE CHOOSE d \in cands : \A e \in cands : e <= d
    ELSE 0

\* w, given in lower case, occurs in t at index a, letter case ignored
OccursAtNoCase(t, w, a) ==
    /\ a + Len(w) - 1 <= Len(t)
    /\ \A i \in 1..Len(w) : Lower(t[a + i - 1]) = w[i]

\* The match of the pattern that starts exactly at index s, if any
MatchAt(t, s) ==
    IF \A k \in 1..Len(TypeWords) : ~OccursAtNoCase(t, TypeWords[k], s)
    THEN NoMatch
    ELSE
      LET w  == TypeWords[CHOOSE k \in 1..Len(TypeWords) :
                    OccursAtNoCase(t, TypeWords[k], s)]
          p  == s + Len(w)            \* after group 1
          ns == SkipSpaces(t, p)      \* group 2 starts
          ne == SkipDigits(t, ns)     \* group 2 ends (exclusive)
      IN  IF ns = p \/ ne = ns THEN NoMatch
          ELSE
            LET d == SeparatorEnd(t, ne) IN
            IF d = 0 THEN NoMatch
            ELSE
              LET e == LineEnd(t, d) IN
              [start     |-> s,
               typeEnd   |-> p,
               numStart  |-> ns,
               numEnd    |-> ne,
               descStart |-> d,
               descEnd   |-> e,
               end       |-> IF e <= Len(t) THEN e + 1 ELSE e]

\* TABLE_TITLE_PATTERN.finditer(text): leftmost non-overlapping matches
RECURSIVE FindIter(_, _)
FindIter(t, pos) ==
    IF pos > Len(t) THEN <<>>
    ELSE LET m == MatchAt(t, pos) IN
         IF m = NoMatch THEN FindIter(t, pos + 1)
         ELSE <<m>> \o FindIter(t, m.end)

-----------------------------------------------------------------------------
(* Data models (core/models.py) *)

\* Python's None for Modification.repetition_number
None == -1

\* TableInfo.__post_init__: the three checks that raise ValueError
ValidTableInfo(ti) ==
    /\ ti.page >= 1
    /\ Len(ti.number) > 0
    /\ \A i \in 1..Len(ti.number) : IsDigit(ti.number[i])
    /\ ti.table_type \in {<<"C","u","a","d","r","o">>, <<"T","a","b","l","a">>}

\* Modification.__post_init__: the checks that raise ValueError
ValidModification(m) ==
    /\ m.page >= 1
    /\ m.total_repetitions >= 1
    /\ ~(m.repetition_number # None
         /\ (m.repetition_number < 1
             \/ m.repetition_number > m.total_repetitions))

\* Modification.needs_modification
needs_modification(m) == m.repetition_number # None

\* Default format values of utils/constants.py; sizes are in hundredths of
\* a point
\* "helv"
DEFAULT_FONT_NAME == <<"h","e","l","v">>

DEFAULT_FONT_SIZE == 1100

DEFAULT_COLOR == <<0, 0, 0>>

DefaultFormat ==
    [font_name |-> DEFAULT_FONT_NAME, font_size |-> DEFAULT_FONT_SIZE,
     is_bold |-> FALSE, is_italic |-> FALSE, color |-> DEFAULT_COLOR]

\* equality of every field, the color and the exact size included
FormatEq_Exact(a, b) == a = b

\* FormatInfo.__eq__: color is not compared, sizes may differ by < 0.1
FormatEq(a, b) ==
    /\ a.font_name = b.font_name
    /\ (IF a.font_size >= b.font_size
        THEN a.font_size - b.font_size
        ELSE b.font_size - a.font_size) < 10
    /\ a.is_bold = b.is_bold
    /\ a.is_italic = b.is_italic

\* The tuple FormatInfo.__hash__ hashes: the size is rounded to one decimal
FormatHashKey(a) ==
    <<a.font_name, (a.font_size + 5) \div 10, a.is_bold, a.is_italic>>

-----------------------------------------------------------------------------
(* PDFAnalyzer (core/analyzer.py) *)

\* the two characters after the number decide has_period (lines 88-101)
HasPeriod(matched_text, number) ==
    LET number_pos == Find(matched_text, number) IN
    IF number_pos # 0
    THEN LET after_number_start == number_pos + Len(number) IN
         IF after_number_start <= Len(matched_text)
         THEN LET after_number ==
                    Slice(matched_text, after_number_start,
                          IF after_number_start + 2 <= Len(matched_text) + 1
                          THEN after_number_start + 2
                          ELSE Len(matched_text) + 1)
                  stripped == Strip(after_number)
              IN  Len(stripped) > 0 /\ stripped[1] = "."
         ELSE FALSE
    ELSE FALSE

\* the two f-strings that build full_title (lines 103-106)
FullTitle(table_type_cap, number, description, has_period) ==
    IF has_period
    THEN table_type_cap \o <<" ">> \o number \o <<".", " ">> \o description
    ELSE table_type_cap \o <<" ">> \o number \o <<" ">> \o description

\* PDFAnalyzer._create_table_info for the match m of the page text t
_create_table_info(t, m, page_num) ==
    LET table_type     == Slice(t, m.start, m.typeEnd)
        number         == Slice(t, m.numStart, m.numEnd)
        description    == CollapseSpaces(Strip(Slice(t, m.descStart, m.descEnd)))
        table_type_cap == Capitalize(table_type)
        matched_text   == Slice(t, m.start, m.end)
        has_period     == HasPeriod(matched_text, number)
    IN  [page        |-> page_num,
         number      |-> number,
         description |-> description,
         full_title  |-> FullTitle(table_type_cap, number, description,
                                   has_period),
         position    |-> m.start - 1,
         table_type  |-> table_type_cap]

\* PDFAnalyzer._analyze_page: the occurrences of one page, in match order.
\* An empty text returns before the pattern is applied.
_analyze_page(t, page_num) ==
    IF t = <<>> THEN <<>>
    ELSE LET ms == FindIter(t, 1) IN
         [k \in 1..Len(ms) |-> _create_table_info(t, ms[k], page_num)]

\* the matches behind _analyze_page's occurrences, with their page
PageMatches(t, page_num) ==
    IF t = <<>> THEN <<>>
    ELSE LET ms == FindIter(t, 1) IN
         [k \in 1..Len(ms) |-> [page |-> page_num, m |-> ms[k]]]

\* the loop of PDFAnalyzer.analyze over pages 1..n of document d
RECURSIVE AnalyzePages(_, _)
AnalyzePages(d, n) ==
    IF n = 0 THEN <<>>
    ELSE AnalyzePages(d, n - 1) \o _analyze_page(d[n], n)

RECURSIVE MatchesOfPages(_, _)
MatchesOfPages(d, n) ==
    IF n = 0 THEN <<>>
    ELSE MatchesOfPages(d, n - 1) \o PageMatches(d[n], n)

\* the loop condition without its page test
RunContinues_AnyPage(tbls, current, count, j) ==
    /\ j <= Len(tbls)
    /\ tbls[j].full_title = current.full_title

\* condition of the inner while loop of find_consecutive_repetitions
RunContinues(tbls, current, count, j) ==
    /\ j <= Len(tbls)
    /\ tbls[j].full_title = current.full_title
    /\ tbls[j].page = current.page + count

\* the inner while loop: the final value of count
RECURSIVE CountRun(_, _, _, _)
CountRun(tbls, current, count, j) ==
    IF RunContinues(tbls, current, count, j)
    THEN CountRun(tbls, current, count + 1, j + 1)
    ELSE count

\* i += 1 in place of i += count
AdvanceIndex_ByOne(i, count) == i + 1

\* i += count
AdvanceIndex(i, count) == i + count

\* the outer while loop of find_consecutive_repetitions, from index i
RECURSIVE RepetitionsFrom(_, _)
RepetitionsFrom(tbls, i) ==
    IF i > Len(tbls) THEN <<>>
    ELSE LET current == tbls[i]
             count   == CountRun(tbls, current, 1, i + 1)
         IN  <<[table |-> current, count |-> count]>>
                \o RepetitionsFrom(tbls, AdvanceIndex(i, count))

\* every occurrence a run of its own
find_consecutive_repetitions_Singletons(tbls) ==
    [k \in 1..Len(tbls) |-> [table |-> tbls[k], count |-> 1]]

find_consecutive_repetitions(tbls) == RepetitionsFrom(tbls, 1)

-----------------------------------------------------------------------------
(* FormatAnalyzer (core/formatter.py): reducing a list of formats *)

\* FormatAnalyzer.check_uniformity
check_uniformity(formats) ==
    IF formats = <<>> THEN TRUE
    ELSE \A k \in 1..Len(formats) : FormatEq(formats[k], formats[1])

\* dict lookup of fmt among the keys of format_counts: same hash and equal
SameKey(a, b) == FormatHashKey(a) = FormatHashKey(b) /\ FormatEq(a, b)

\* the counting loop of get_common_format: the dict as a list of
\* [key, n] entries in insertion order
RECURSIVE FormatCounts(_, _)
FormatCounts(formats, n) ==
    IF n = 0 THEN <<>>
    ELSE LET counts == FormatCounts(formats, n - 1)
             fmt    == formats[n]
         IN  IF \E k \in 1..Len(counts) : SameKey(counts[k].key, fmt)
             THEN LET k == CHOOSE k \in 1..Len(counts) :
                              SameKey(counts[k].key, fmt)
                  IN  [counts EXCEPT ![k].n = @ + 1]
             ELSE Append(counts, [key |-> fmt, n |-> 1])

NoFormat == [font_name |-> "None"]

\* FormatAnalyzer.get_common_format: max() keeps the first largest entry
get_common_format(formats) ==
    IF formats = <<>> THEN NoFormat
    ELSE LET counts == FormatCounts(formats, Len(formats))
             best == CHOOSE k \in 1..Len(counts) :
                        /\ \A j \in 1..Len(counts) : counts[j].n <= counts[k].n
                        /\ \A j \in 1..(k - 1) : counts[j].n < counts[k].n
         IN  counts[best].key

-----------------------------------------------------------------------------
(* FormatAnalyzer (core/formatter.py): resolving the format of a title *)

\* str.lower
LowerStr(s) == [i \in 1..Len(s) |-> Lower(s[i])]

\* w in s
Contains(s, w) == Find(s, w) # 0

\* str.rstrip('.')
RECURSIVE RStripPeriods(_)
RStripPeriods(s) ==
    IF s # <<>> /\ s[Len(s)] = "."
    THEN RStripPeriods(SubSeq(s, 1, Len(s) - 1))
    ELSE s

\* (Cuadro|Tabla)\s+(\d+) with re.IGNORECASE, tried at index s
TypeNumberAt(t, s) ==
    IF \A k \in 1..Len(TypeWords) : ~OccursAtNoCase(t, TypeWords[k], s)
    THEN NoMatch
    ELSE
      LET w  == TypeWords[CHOOSE k \in 1..Len(TypeWords) :
                    OccursAtNoCase(t, TypeWords[k], s)]
          p  == s + Len(w)
          ns == SkipSpaces(t, p)
          ne == SkipDigits(t, ns)
      IN  IF ns = p \/ ne = ns THEN NoMatch
          ELSE [start |-> s, typeEnd |-> p, numStart |-> ns, numEnd |-> ne]

\* re.search of that pattern: the leftmost match
TypeNumberSearch(t) ==
    IF \A s \in 1..Len(t) : TypeNumberAt(t, s) = NoMatch THEN NoMatch
    ELSE TypeNumberAt(t, CHOOSE s \in 1..Len(t) :
                            /\ TypeNumberAt(t, s) # NoMatch
                            /\ \A r \in 1..(s - 1) :
                                  TypeNumberAt(t, r) = NoMatch)

\* font_mapping of _normalize_font_name, in the order of the dict
FontMapping ==
    << [key   |-> <<"t","i","m","e","s">>,
        value |-> <<"T","i","m","e","s"," ","N","e","w"," ","R","o","m","a","n">>],
       [key   |-> <<"t","i","m","e","s","-","r","o","m","a","n">>,
        value |-> <<"T","i","m","e","s"," ","N","e","w"," ","R","o","m","a","n">>],
       [key   |-> <<"t","i","m","e","s","n","e","w","r","o","m","a","n">>,
        value |-> <<"T","i","m","e","s"," ","N","e","w"," ","R","o","m","a","n">>],
       [key   |-> <<"t","i","m","e","s","n","e","w","r","o","m","a","n","p","s">>,
        value |-> <<"T","i","m","e","s"," ","N","e","w"," ","R","o","m","a","n">>],
       [key   |-> <<"t","i","m","e","s","n","e","w","r","o","m","a","n","p","s","m","t">>,
        value |-> <<"T","i","m","e","s"," ","N","e","w"," ","R","o","m","a","n">>],
       [key   |-> <<"h","e","l","v","e","t","i","c","a">>,
        value |-> <<"H","e","l","v","e","t","i","c","a">>],
       [key   |-> <<"h","e","l","v">>,
        value |-> <<"H","e","l","v","e","t","i","c","a">>],
       [key   |-> <<"a","r","i","a","l">>,
        value |-> <<"A","r","i","a","l">>],
       [key   |-> <<"a","r","i","a","l","m","t">>,
        value |-> <<"A","r","i","a","l">>],
       [key   |-> <<"c","a","l","i","b","r","i">>,
        value |-> <<"C","a","l","i","b","r","i">>],
       [key   |-> <<"c","a","l","i","b","r","i","m","t">>,
        value |-> <<"C","a","l","i","b","r","i">>],
       [key   |-> <<"v","e","r","d","a","n","a">>,
        value |-> <<"V","e","r","d","a","n","a">>] >>

\* FormatAnalyzer._normalize_font_name: the value of the first key that is
\* a substring of the lower-cased name, else the name itself
_normalize_font_name(font_name) ==
    LET font_lower == LowerStr(font_name)
        hits == {k \in 1..Len(FontMapping) :
                    Contains(font_lower, FontMapping[k].key)}
    IN  IF hits = {} THEN font_name
        ELSE FontMapping[CHOOSE k \in hits : \A j \in hits : k <= j].value

\* what a raising call leaves instead of a value
Raises(name) == [error |-> name]

\* FormatInfo(...) : __post_init__ raises ValueError for a size that is not
\* positive and for a color outside 0..255
NewFormatInfo(font_name, font_size, is_bold, is_italic, color) ==
    IF font_size <= 0 THEN Raises("ValueError")
    ELSE IF Len(color) # 3 \/ \E i \in 1..Len(color) :
                                color[i] < 0 \/ color[i] > 255
    THEN Raises("ValueError")
    ELSE [font_name |-> font_name, font_size |-> font_size,
          is_bold |-> is_bold, is_italic |-> is_italic, color |-> color]

\* FormatAnalyzer._create_format_info: bit 4 of the flags is taken as bold,
\* bit 0 as italic; an integer color is split into its three bytes
_create_format_info(span) ==
    NewFormatInfo(_normalize_font_name(span.font),
                  span.size,
                  (span.flags \div 16) % 2 = 1,
                  span.flags % 2 = 1,
                  << (span.color \div 65536) % 256,
                     (span.color \div 256) % 256,
                     span.color % 256 >>)

\* page.search_for(needle): the backend either finds no instance or
\* answers, for the first instance, with the spans that
\* page.get_text("rawdict", clip=expanded_rect) lists, blocks and lines
\* flattened in iteration order
NoHit == [found |-> FALSE]

Hit(spans) == [found |-> TRUE, spans |-> spans]

\* f"{table_type} {table_num}" of the match of (Cuadro|Tabla)\s+(\d+)
BaseTitle(title) ==
    LET match == TypeNumberSearch(title)
    IN  Slice(title, match.start, match.typeEnd) \o <<" ">>
            \o Slice(title, match.numStart, match.numEnd)

\* the instances _find_format_by_search ends up with: the first search,
\* in the order full title, title.rstrip('.'), base title, that returns
\* an instance
SearchInstances(hit, title) ==
    LET instances1 == hit[title]
        instances2 == IF ~instances1.found THEN hit[RStripPeriods(title)]
                      ELSE instances1
    IN  IF ~instances2.found /\ TypeNumberSearch(title) # NoMatch
        THEN hit[BaseTitle(title)]
        ELSE instances2

\* "Only use spans with valid font info" (line 122)
ValidSpan(span) == span.font # <<>> /\ span.size > 0

\* FormatAnalyzer._find_format_by_search
_find_format_by_search(hit, table) ==
    LET instances == SearchInstances(hit, table.full_title)
        valid_spans == IF instances.found
                       THEN SelectSeq(instances.spans, ValidSpan)
                       ELSE <<>>
    IN  IF valid_spans # <<>> THEN _create_format_info(valid_spans[1])
        ELSE DefaultFormat

\* concatenation of the span texts of a line
RECURSIVE LineText(_)
LineText(line_spans) ==
    IF line_spans = <<>> THEN <<>>
    ELSE line_spans[1].text \o LineText(Tail(line_spans))

\* re.search(f"{table_type}\\s+{table_num}", line_text_lower)
TypeNumberIn(text, table_type, table_num) ==
    \E a \in 1..Len(text) :
        /\ OccursAt(text, table_type, a)
        /\ SkipSpaces(text, a + Len(table_type)) > a + Len(table_type)
        /\ OccursAt(text, table_num, SkipSpaces(text, a + Len(table_type)))

\* the spans one line adds to candidate_spans (lines 179-198)
LineCandidates(candidate_spans, line_spans, title_lower, match) ==
    LET line_text_lower == LowerStr(LineText(line_spans))
        table_type == Slice(title_lower, match.start, match.typeEnd)
        table_num  == Slice(title_lower, match.numStart, match.numEnd)
        both(span) == /\ Contains(LowerStr(span.text), table_type)
                      /\ Contains(LowerStr(span.text), table_num)
        first == IF match # NoMatch
                    /\ TypeNumberIn(line_text_lower, table_type, table_num)
                 THEN IF SelectSeq(line_spans, both) # <<>>
                      THEN <<SelectSeq(line_spans, both)[1]>>
                      ELSE IF candidate_spans = <<>> /\ line_spans # <<>>
                      THEN <<line_spans[1]>>
                      ELSE <<>>
                 ELSE <<>>
        named(span) == \/ Contains(LowerStr(span.text), TypeWords[1])
                       \/ Contains(LowerStr(span.text), TypeWords[2])
        second == IF Contains(line_text_lower, title_lower)
                  THEN SelectSeq(line_spans, named)
                  ELSE <<>>
    IN  first \o second

\* candidate_spans after the first n lines of the page
RECURSIVE CandidateSpans(_, _, _)
CandidateSpans(lines, n, title) ==
    IF n = 0 THEN <<>>
    ELSE LET earlier == CandidateSpans(lines, n - 1, title)
         IN  earlier \o LineCandidates(earlier, lines[n], LowerStr(title),
                                       TypeNumberSearch(LowerStr(title)))

\* candidate_spans[0] read without the emptiness test
_find_table_format_Unchecked(lines, title) == Raises("IndexError")

\* FormatAnalyzer._find_table_format on the lines of the page's rawdict
_find_table_format(lines, title) ==
    LET candidate_spans == CandidateSpans(lines, Len(lines), title)
    IN  IF candidate_spans # <<>>
        THEN _create_format_info(candidate_spans[1])
        ELSE DefaultFormat

IsRaise(x) == "error" \in DOMAIN x

\* FormatAnalyzer.extract_format with the backend b: the value returned,
\* or the raise, and the handles left open.  b.fails names the backend
\* call that raises: the open, the text search, or none.
extract_format(b, table) ==
    IF b.fails = "open"
    THEN [value |-> Raises("FormatDetectionError"), open |-> 0]
    ELSE IF b.fails = "search_for"
    THEN [value |-> Raises("FormatDetectionError"), open |-> 1]
    ELSE LET by_search == _find_format_by_search(b.hit, table)
             format_info ==
                 IF IsRaise(by_search) THEN by_search
                 ELSE IF by_search.font_name = DEFAULT_FONT_NAME
                 THEN _find_table_format(b.lines, table.full_title)
                 ELSE by_search
         IN  IF IsRaise(format_info)
             THEN [value |-> Raises("FormatDetectionError"), open |-> 1]
             ELSE [value |-> format_info, open |-> 0]

-----------------------------------------------------------------------------
(* Input validation (utils/validators.py) *)

PDF_EXTENSION == <<".","p","d","f">>

MAX_FILE_SIZE_MB == 50

\* a path as validate_pdf_path sees it: its text, whether it exists and
\* is a regular file, its suffix and its size in whole megabytes
validate_pdf_path(file_path) ==
    IF file_path.text = <<>> THEN Raises("ValidationError")
    ELSE IF ~file_path.exists THEN Raises("ValidationError")
    ELSE IF ~file_path.is_file THEN Raises("ValidationError")
    ELSE IF LowerStr(file_path.suffix) # PDF_EXTENSION
         THEN Raises("ValidationError")
    ELSE IF file_path.size_mb > MAX_FILE_SIZE_MB
         THEN Raises("ValidationError")
    ELSE [path |-> file_path.text]

\* sizes are hundredths of a point
validate_font_size(size) ==
    IF size <= 0 THEN Raises("ValidationError")
    ELSE IF size > 7200 THEN Raises("ValidationError")
    ELSE [size |-> size]

validate_page_number(page, max_pages) ==
    IF page < 1 THEN Raises("ValidationError")
    ELSE IF page > max_pages THEN Raises("ValidationError")
    ELSE [page |-> page]

-----------------------------------------------------------------------------
(* PDFModifier (core/modifier.py) *)

\* str.replace(" ", "-")
HyphenateSpaces(s) == [i \in 1..Len(s) |-> IF s[i] = " " THEN "-" ELSE s[i]]

\* font_file_map of _load_font_if_needed: its keys, in the order of the
\* dict
FontFileKeys ==
    << <<"t","i","m","e","s"," ","n","e","w"," ","r","o","m","a","n">>,
       <<"a","r","i","a","l">>, <<"c","a","l","i","b","r","i">>,
       <<"h","e","l","v","e","t","i","c","a">>, <<"v","e","r","d","a","n","a">> >>

\* variant chosen from the bold and italic flags (lines 320-327)
Variant(format_info) ==
    IF format_info.is_bold /\ format_info.is_italic
    THEN <<"b","o","l","d","_","i","t","a","l","i","c">>
    ELSE IF format_info.is_bold THEN <<"b","o","l","d">>
    ELSE IF format_info.is_italic THEN <<"i","t","a","l","i","c">>
    ELSE <<"n","o","r","m","a","l">>

\* PDFModifier._load_font_if_needed: the name the font is registered
\* under and cached with, <<>> when nothing is registered.  font_files
\* tells whether the font files exist in the system font directory and
\* page.insert_font accepts them.
_load_font_if_needed(font_files, format_info) ==
    LET font_name_lower == LowerStr(format_info.font_name)
    IN  IF font_files /\ \E k \in 1..Len(FontFileKeys) :
                            Contains(font_name_lower, FontFileKeys[k])
        THEN HyphenateSpaces(font_name_lower) \o <<"-">>
                \o Variant(format_info)
        ELSE <<>>

\* font_map of _get_font_name, in the order of the dict
FontMap ==
    << [key |-> <<"t","i","m","e","s">>, value |-> <<"t","i","r","o">>],
       [key   |-> <<"t","i","m","e","s"," ","n","e","w"," ","r","o","m","a","n">>,
        value |-> <<"t","i","r","o">>],
       [key |-> <<"a","r","i","a","l">>, value |-> <<"h","e","l","v">>],
       [key   |-> <<"h","e","l","v","e","t","i","c","a">>,
        value |-> <<"h","e","l","v">>],
       [key |-> <<"c","o","u","r","i","e","r">>, value |-> <<"c","o","u","r">>],
       [key   |-> <<"c","o","u","r","i","e","r"," ","n","e","w">>,
        value |-> <<"c","o","u","r">>] >>

\* PDFModifier._get_font_name: the cached registered name, else the base
\* font of the first key found in the lower-cased name, else the default
_get_font_name(registered, format_info) ==
    LET font_name_lower == LowerStr(format_info.font_name)
        hits == {k \in 1..Len(FontMap) :
                    Contains(font_name_lower, FontMap[k].key)}
    IN  IF registered # <<>> THEN registered
        ELSE IF hits = {} THEN DEFAULT_FONT_NAME
        ELSE FontMap[CHOOSE k \in hits : \A j \in hits : k <= j].value

\* PDFModifier._replace_text: the calls made on the page and whether the
\* method raises.  page.insert_text raises for the font names of
\* b.bad_fonts; the call in the except clause is not guarded.
_replace_text(b, rect_page, new_text, format_info) ==
    LET font_name == _get_font_name(
                        _load_font_if_needed(b.font_files, format_info),
                        format_info)
        redact == [call |-> "apply_redactions", page |-> rect_page]
        insert(fontname) ==
            [call |-> "insert_text", page |-> rect_page, text |-> new_text,
             fontsize |-> format_info.font_size, fontname |-> fontname,
             color |-> format_info.color,
             ok |-> fontname \notin b.bad_fonts]
    IN  IF font_name \notin b.bad_fonts
        THEN [calls |-> <<redact, insert(font_name)>>, raised |-> FALSE]
        ELSE [calls  |-> <<redact, insert(font_name),
                           insert(DEFAULT_FONT_NAME)>>,
              raised |-> DEFAULT_FONT_NAME \in b.bad_fonts]

\* PDFModifier._apply_single_modification on the state st of the loop:
\* applied_count, the calls made so far, and whether an exception left the
\* method.  b.pages is len(doc); b.titles_found holds the pages on which
\* _find_title_rect finds the title.
\* mod.format_info in place of custom_format or mod.format_info
_apply_single_modification_OwnFormat(b, st, mod, custom_format) ==
    IF mod.page - 1 >= b.pages THEN st
    ELSE IF mod.page \notin b.titles_found THEN st
    ELSE LET format_info == IF mod.format_info # NoFormat
                            THEN mod.format_info
                            ELSE DefaultFormat
             replaced == _replace_text(b, mod.page, mod.modified_title,
                                       format_info)
         IN  [applied_count |-> IF replaced.raised THEN st.applied_count
                                ELSE st.applied_count + 1,
              calls  |-> st.calls \o replaced.calls,
              raised |-> replaced.raised]

_apply_single_modification(b, st, mod, custom_format) ==
    IF mod.page - 1 >= b.pages THEN st
    ELSE IF mod.page \notin b.titles_found THEN st
    ELSE LET format_info == IF custom_format # NoFormat THEN custom_format
                            ELSE IF mod.format_info # NoFormat
                            THEN mod.format_info
                            ELSE DefaultFormat
             replaced == _replace_text(b, mod.page, mod.modified_title,
                                       format_info)
         IN  [applied_count |-> IF replaced.raised THEN st.applied_count
                                ELSE st.applied_count + 1,
              calls  |-> st.calls \o replaced.calls,
              raised |-> replaced.raised]

\* the loop of apply_modifications over mods[k..]: it ends at the first
\* exception
RECURSIVE ApplyLoop(_, _, _, _, _)
ApplyLoop(b, st, mods, k, custom_format) ==
    IF k > Len(mods) \/ st.raised THEN st
    ELSE IF ~needs_modification(mods[k])
    THEN ApplyLoop(b, st, mods, k + 1, custom_format)
    ELSE ApplyLoop(b, _apply_single_modification(b, st, mods[k],
                                                 custom_format),
                   mods, k + 1, custom_format)

\* PDFModifier.apply_modifications: the exception raised if any, the
\* applied_count (returned when nothing is raised), the calls made, whether
\* the document was saved, and the handles left open.
\* An exception of the open, of a modification or of the save is raised
\* again as ModificationError; doc.close() is on the normal path only.
apply_modifications(b, mods, custom_format) ==
    IF b.fails = "open"
    THEN [raises |-> "ModificationError", applied_count |-> 0,
          calls |-> <<>>, saved |-> FALSE, open |-> 0]
    ELSE LET st == ApplyLoop(b, [applied_count |-> 0, calls |-> <<>>,
                                 raised |-> FALSE],
                             mods, 1, custom_format)
         IN  IF st.raised \/ b.fails = "save"
             THEN [raises |-> "ModificationError",
                   applied_count |-> st.applied_count,
                   calls |-> st.calls, saved |-> FALSE, open |-> 1]
             ELSE [raises |-> "",
                   applied_count |-> st.applied_count,
                   calls |-> st.calls, saved |-> TRUE, open |-> 0]

-----------------------------------------------------------------------------
(* TableTitleRule (rules/table_title_rule.py) *)

\* the suffix numbered from 0
ModifiedTitle_FromZero(full_title, i, count) ==
    full_title \o <<" ", "(">> \o IntToStr(i) \o <<"/">>
        \o IntToStr(count) \o <<")">>

\* the f-string building modified_title, i counting from 0 (lines 140-143)
ModifiedTitle(full_title, i, count) ==
    full_title \o <<" ", "(">> \o IntToStr(i + 1) \o <<"/">>
        \o IntToStr(count) \o <<")">>

\* the branch test taken for single occurrences too
NeedsNumbering_Always(count) == count >= 1

\* the branch test of _create_modifications (line 132)
NeedsNumbering(count) == count > 1

\* every decision of a run built from the run's first occurrence
CurrentTable_First(tbls, table_index, i) == tbls[table_index]

\* the occurrence a decision of a numbered run is built from (line 135);
\* table_index is the 1-based index of the run's first occurrence
CurrentTable(tbls, table_index, i) == tbls[table_index + i]

\* the decisions of one repetition entry; fmts[k] is what extract_format
\* returns for occurrence k of the document
RunModifications(tbls, rep, table_index, fmts) ==
    IF NeedsNumbering(rep.count)
    THEN [k \in 1..rep.count |->
            LET i == k - 1
                current_table == CurrentTable(tbls, table_index, i)
            IN  [page              |-> current_table.page,
                 original_title    |-> current_table.full_title,
                 modified_title    |-> ModifiedTitle(current_table.full_title,
                                                     i, rep.count),
                 repetition_number |-> i + 1,
                 total_repetitions |-> rep.count,
                 format_info       |-> fmts[table_index + i]]]
    ELSE << [page              |-> rep.table.page,
             original_title    |-> rep.table.full_title,
             modified_title    |-> rep.table.full_title,
             repetition_number |-> None,
             total_repetitions |-> 1,
             format_info       |-> fmts[table_index]] >>

\* the loop of _create_modifications from entry rep_idx on
RECURSIVE ModificationsFrom(_, _, _, _, _)
ModificationsFrom(tbls, reps, rep_idx, table_index, fmts) ==
    IF rep_idx > Len(reps) THEN <<>>
    ELSE RunModifications(tbls, reps[rep_idx], table_index, fmts)
            \o ModificationsFrom(tbls, reps, rep_idx + 1,
                                 table_index + reps[rep_idx].count, fmts)

_create_modifications(tbls, reps, fmts) ==
    ModificationsFrom(tbls, reps, 1, 1, fmts)

\* the whole list, whatever n
Prefix_All(s, n) == s

\* tables[:n]
Prefix(s, n) == IF Len(s) <= n THEN s ELSE SubSeq(s, 1, n)

\* sample sizes of _extract_format_info and _check_format_uniformity
CommonFormatSample == 10

UniformitySample == 20

\* TableTitleRule._extract_format_info: the common format of what
\* extract_format returns for tables[:10]
_extract_format_info(tbls, fmts) ==
    IF tbls = <<>> THEN NoFormat
    ELSE get_common_format(
            [k \in 1..Len(Prefix(tbls, CommonFormatSample)) |-> fmts[k]])

\* TableTitleRule._check_format_uniformity: the uniformity of what
\* extract_format returns for tables[:sample_size], sample_size being
\* min(20, len(tables))
_check_format_uniformity(tbls, fmts) ==
    IF tbls = <<>> THEN TRUE
    ELSE check_uniformity(
            [k \in 1..Len(Prefix(tbls, UniformitySample)) |-> fmts[k]])

\* every decision counted
TablesToModify_All(mods) == Len(mods)

\* AnalysisResult.__post_init__: count of decisions to apply
TablesToModify(mods) ==
    Cardinality({k \in 1..Len(mods) : needs_modification(mods[k])})

\* AnalysisResult(...) with the derived counts of __post_init__
AnalysisResult(all_tables, mods, format_uniform, format_info) ==
    [all_tables       |-> all_tables,
     modifications    |-> mods,
     format_uniform   |-> format_uniform,
     format_info      |-> format_info,
     total_tables     |-> Len(all_tables),
     tables_to_modify |-> TablesToModify(mods)]

NoResult == [total_tables |-> -1]

-----------------------------------------------------------------------------
(* Inputs *)

\* a page text of the extractor runs: a word followed by characters
Words ==
    { <<"T","a","b","l","a">>, <<"c","U","A","D","R","O">>,
      <<"T","a","b","l","e">> }

TailChars == {" ", "\n", ".", "3", "x"}

RECURSIVE TextsOf(_)
TextsOf(n) ==
    IF n = 0 THEN Words
    ELSE LET shorter == TextsOf(n - 1)
         IN  shorter \cup {Append(t, c) : t \in shorter, c \in TailChars}

\* title lines the pages of an analysed document are made of
Lines ==
    { <<"T","a","b","l","a"," ","2","."," ","R","e","s","u","l","t","a","d","o","s">>,
      <<"C","u","a","d","r","o"," ","1","."," ","X">> }

\* a page without any title
NotePage == <<"n","o","t","a","\n">>

RECURSIVE TitlePagesOf(_)
TitlePagesOf(n) ==
    IF n = 0 THEN {<<>>}
    ELSE LET shorter == TitlePagesOf(n - 1)
         IN  shorter \cup {t \o l \o <<"\n">> : t \in shorter, l \in Lines}

PageTexts == TitlePagesOf(MaxLines) \cup {NotePage}

Docs == UNION {[1..n -> PageTexts] : n \in 0..MaxPages}

\* occurrences handed to find_consecutive_repetitions: the titles of Lines
\* on any page, in any order
GivenTables ==
    {[ti EXCEPT !.page = p] :
        ti \in {_analyze_page(l, 1)[1] : l \in {l \in Lines : _analyze_page(l, 1) # <<>>}},
        p \in 1..MaxPage}

RECURSIVE TableSeqsOf(_)
TableSeqsOf(n) ==
    IF n = 0 THEN {<<>>}
    ELSE LET shorter == TableSeqsOf(n - 1)
         IN  shorter \cup {Append(q, ti) : q \in shorter, ti \in GivenTables}

\* formats the backend may resolve for the titles of a document
Arial12 ==
    [font_name |-> <<"A","r","i","a","l">>, font_size |-> 1200,
     is_bold |-> TRUE, is_italic |-> FALSE, color |-> <<0, 0, 0>>]

BackendFormats == {DefaultFormat, Arial12}

-----------------------------------------------------------------------------
(* Specifications *)

\* no backend call is made
NoBackend == [failAt |-> -1]

\* no write call made, nothing saved
NoWrites == [calls |-> <<>>, saved |-> FALSE]

\* no file is selected: Python's None for a path
NoFile == <<>>

\* MainWindow.__init__: nothing selected, nothing analysed, the apply
\* button disabled, the home view shown
NewWindow ==
    [selected_file    |-> NoFile,
     current_result   |-> NoResult,
     apply_button     |-> "disabled",
     browse_button    |-> "normal",
     scrollable_frame |-> "shown"]

IdleWindow ==
    /\ window = NewWindow
    /\ threads = <<>>
    /\ events = <<>>

Blank ==
    /\ IdleWindow
    /\ pc = "input"
    /\ found = <<>>
    /\ repetitions = <<>>
    /\ modifications = <<>>
    /\ result = NoResult
    /\ given_formats = <<>>
    /\ backend = NoBackend
    /\ handles = 0
    /\ written = NoWrites

\* find_consecutive_repetitions applied to a given occurrence list
InitGroup ==
    /\ Blank
    /\ doc = <<>>
    /\ tables \in TableSeqsOf(MaxTables)

FindRepetitions ==
    /\ pc = "input"
    /\ pc' = "grouped"
    /\ repetitions' = find_consecutive_repetitions(tables)
    /\ UNCHANGED gui_vars
    /\ UNCHANGED <<doc, tables, found, modifications, result,
                   given_formats, backend, handles, written>>

NextGroup == FindRepetitions

SpecGroup == InitGroup /\ [][NextGroup]_vars

\* _analyze_page applied to the text of page 1
InitExtract ==
    /\ Blank
    /\ tables = <<>>
    /\ \E t \in TextsOf(MaxTail) : doc = <<t>>

ScanPage ==
    /\ pc = "input"
    /\ pc' = "scanned"
    /\ tables' = tables \o _analyze_page(doc[1], 1)
    /\ found' = found \o PageMatches(doc[1], 1)
    /\ UNCHANGED gui_vars
    /\ UNCHANGED <<doc, repetitions, modifications, result,
                   given_formats, backend, handles, written>>

NextExtract == ScanPage

SpecExtract == InitExtract /\ [][NextExtract]_vars

\* TableTitleRule.analyze applied to a document
Init ==
    /\ Blank
    /\ tables = <<>>
    /\ doc \in Docs

\* every page read whatever the backend does
StopPage_Never(d, failAt) == Len(d) + 1

\* the page at which PDFAnalyzer.analyze stops with PDFReadError when the
\* backend fails at page failAt: a ValueError that TableInfo.__post_init__
\* raises for an occurrence of an earlier page is wrapped the same way;
\* Len(d)+1 when every page is read
StopPage(d, failAt) ==
    LET bad == {q \in 1..Len(d) :
                  /\ q < failAt
                  /\ \E k \in 1..Len(_analyze_page(d[q], q)) :
                        ~ValidTableInfo(_analyze_page(d[q], q)[k])}
    IN  IF bad = {} THEN failAt
        ELSE CHOOSE q \in bad : \A r \in bad : q <= r

\* what the backend does when extract_format asks for a title's format:
\* it resolves one of BackendFormats or fails
FormatRaises == [error |-> "FormatDetectionError"]

BackendAnswers == BackendFormats \cup {FormatRaises}

\* TableTitleRule.analyze.  failAt is the page whose read the backend
\* fails (0: the open fails, Len(doc)+1: none); fmt is the backend's answer
\* to extract_format.  PDFAnalyzer.analyze holds its handle in a with
\* block; an extract_format that raises after its open leaves its handle
\* open (formatter.py lines 42-61).
Analyze(failAt, fmt) ==
    /\ pc = "input"
    /\ \E stopAt \in {StopPage(doc, failAt)} :
       \E lastRead \in {IF stopAt > Len(doc) THEN Len(doc)
                        ELSE IF stopAt = 0 THEN 0 ELSE stopAt - 1} :
       \E tbls \in {AnalyzePages(doc, lastRead)} :
       \E reps \in {find_consecutive_repetitions(tbls)} :
       \E fmts \in {[k \in 1..Len(tbls) |-> fmt]} :
       \E mods \in {_create_modifications(tbls, reps, fmts)} :
           /\ tables' = tbls
           /\ backend' = [failAt |-> failAt]
           /\ found' = MatchesOfPages(doc, lastRead)
           /\ IF stopAt <= Len(doc)
              THEN /\ pc' = "PDFReadError"
                   /\ UNCHANGED <<repetitions, modifications, result,
                                  handles>>
              ELSE IF fmt = FormatRaises /\ tbls # <<>>
              THEN /\ pc' = "FormatDetectionError"
                   /\ repetitions' = reps
                   /\ handles' = handles + 1
                   /\ UNCHANGED <<modifications, result>>
              ELSE IF \E k \in 1..Len(mods) : ~ValidModification(mods[k])
              THEN /\ pc' = "ValueError"
                   /\ repetitions' = reps
                   /\ UNCHANGED <<modifications, result, handles>>
              ELSE /\ pc' = "done"
                   /\ repetitions' = reps
                   /\ modifications' = mods
                   /\ result' = AnalysisResult(
                                    tbls, mods,
                                    _check_format_uniformity(tbls, fmts),
                                    _extract_format_info(tbls, fmts))
                   /\ UNCHANGED handles
    /\ UNCHANGED gui_vars
    /\ UNCHANGED <<doc, given_formats, written>>

Next ==
    \E failAt \in 0..(Len(doc) + 1), fmt \in BackendAnswers :
        Analyze(failAt, fmt)

Spec == Init /\ [][Next]_vars

\* formats handed to check_uniformity and get_common_format: sizes 11.0,
\* 11.04, 11.05 and 12.0, each flag, two families and two colors
Arial11 ==
    [font_name |-> <<"A","r","i","a","l">>, font_size |-> 1100,
     is_bold |-> FALSE, is_italic |-> FALSE, color |-> <<0, 0, 0>>]

FormatInputs ==
    { Arial11,
      [Arial11 EXCEPT !.font_size = 1105, !.color = <<255, 0, 0>>],
      [Arial11 EXCEPT !.font_size = 1104],
      [Arial11 EXCEPT !.font_size = 1112],
      [Arial11 EXCEPT !.font_size = 1200],
      [Arial11 EXCEPT !.is_bold = TRUE],
      [Arial11 EXCEPT !.is_italic = TRUE],
      [Arial11 EXCEPT !.font_name =
          <<"T","i","m","e","s"," ","N","e","w"," ","R","o","m","a","n">>] }

FormatSeqs == UNION {[1..n -> FormatInputs] : n \in 0..MaxFormats}

\* the reductions of FormatAnalyzer applied to a given list of formats
InitFormat ==
    /\ Blank
    /\ doc = <<>>
    /\ tables = <<>>

\* the lists that hold the elements of fs in another order
Reorderings(fs) ==
    {[k \in 1..Len(fs) |-> fs[p[k]]] : p \in Permutations(1..Len(fs))}

\* a == b and hash(a) for the elements of the list, check_uniformity and
\* get_common_format for the list, check_uniformity for the list in
\* every order; hash() is taken as the tuple it hashes
Reduce(fs) ==
    /\ pc = "input"
    /\ pc' = "reduced"
    /\ given_formats' = fs
    /\ result' =
          [equal   |-> [i \in 1..Len(fs) |->
                          [j \in 1..Len(fs) |-> FormatEq(fs[i], fs[j])]],
           hash    |-> [i \in 1..Len(fs) |-> FormatHashKey(fs[i])],
           uniform |-> check_uniformity(fs),
           common  |-> get_common_format(fs),
           reordered |-> {check_uniformity(gs) : gs \in Reorderings(fs)}]
    /\ UNCHANGED gui_vars
    /\ UNCHANGED <<doc, tables, found, repetitions, modifications,
                   backend, handles, written>>

NextFormat == pc = "input" /\ \E fs \in FormatSeqs : Reduce(fs)

SpecFormat == InitFormat /\ [][NextFormat]_vars

\* n occurrences of one title, on pages 1..n
OccurrencesOn(n) ==
    [k \in 1..n |->
        _analyze_page(<<"T","a","b","l","a"," ","2","."," ","X">>, k)[1]]

\* what extract_format resolves for the occurrences of such a document:
\* Arial 11 for all of them but at most one, which is larger or bold
UniformFormatSeqs ==
    {[k \in 1..n |-> IF k = d THEN g ELSE Arial11] :
        n \in 0..MaxOccurrences, d \in 0..MaxOccurrences,
        g \in {[Arial11 EXCEPT !.font_size = 1200],
               [Arial11 EXCEPT !.is_bold = TRUE]}}

\* _check_format_uniformity applied to a document with many occurrences
InitUniform ==
    /\ Blank
    /\ doc = <<>>
    /\ tables = <<>>

CheckUniformity(fs) ==
    /\ pc = "input"
    /\ pc' = "checked"
    /\ tables' = OccurrencesOn(Len(fs))
    /\ given_formats' = fs
    /\ result' = [format_uniform |->
                    _check_format_uniformity(OccurrencesOn(Len(fs)), fs)]
    /\ UNCHANGED gui_vars
    /\ UNCHANGED <<doc, found, repetitions, modifications, backend, handles,
                   written>>

NextUniform ==
    pc = "input" /\ \E fs \in UniformFormatSeqs : CheckUniformity(fs)

SpecUniform == InitUniform /\ [][NextUniform]_vars

\* the occurrences whose format is resolved: "Tabla 2. X" and
\* "Tabla 2. X." on page 1
ResolveTables ==
    { _analyze_page(<<"T","a","b","l","a"," ","2","."," ","X">>, 1)[1],
      _analyze_page(<<"T","a","b","l","a"," ","2","."," ","X",".">>, 1)[1] }

\* spans of the backend's rawdict
SpanArialMT ==
    [text |-> <<"T","a","b","l","a"," ","2","."," ","X">>, font |-> <<"A","r","i","a","l","M","T">>,
     size |-> 1200, flags |-> 0, color |-> 0]

SpanTimesBold ==
    [text |-> <<"T","a","b","l","a"," ","2","."," ","X">>,
     font |-> <<"T","i","m","e","s","N","e","w","R","o","m","a","n","P","S","B","o","l","d","M","T">>,
     size |-> 1000, flags |-> 16, color |-> 255]

SpanCalibriItalic ==
    [text |-> <<"T","a","b","l","a"," ","2","."," ","X">>, font |-> <<"C","a","l","i","b","r","i">>,
     size |-> 1100, flags |-> 1, color |-> 0]

\* a span without font name, a span of size 0
SpanNoFont == [SpanArialMT EXCEPT !.font = <<>>]

SpanZero == [SpanArialMT EXCEPT !.size = 0]

SpanNote == [SpanCalibriItalic EXCEPT !.text = <<"n","o","t","a">>]

\* what a text search may answer
HitOptions ==
    { NoHit,
      Hit(<<SpanNoFont, SpanZero>>),
      Hit(<<SpanZero, SpanArialMT>>),
      Hit(<<SpanTimesBold, SpanArialMT>>) }

\* the strings _find_format_by_search may search for
Needles(table) ==
    { table.full_title, RStripPeriods(table.full_title),
      BaseTitle(table.full_title) }

\* the lines of the page's rawdict, blocks flattened: no line, a note, the
\* title in one span, the title in a span of size 0, the title split
\* after the type word
PageLineOptions ==
    { <<>>,
      << <<SpanNote>> >>,
      << <<SpanNote>>, <<SpanCalibriItalic>> >>,
      << <<SpanZero>> >>,
      << <<[SpanTimesBold EXCEPT !.text = <<"T","a","b","l","a">>],
           [SpanCalibriItalic EXCEPT !.text = <<" ","2","."," ","X">>]>> >> }

ResolveBackends(table) ==
    [fails : {"none", "open", "search_for"},
     hit   : [Needles(table) -> HitOptions],
     lines : PageLineOptions]

\* extract_format applied to one occurrence
InitResolve ==
    /\ IdleWindow
    /\ pc = "input"
    /\ doc = <<>>
    /\ found = <<>>
    /\ repetitions = <<>>
    /\ modifications = <<>>
    /\ result = NoResult
    /\ given_formats = <<>>
    /\ handles = 0
    /\ written = NoWrites
    /\ \E table \in ResolveTables :
          /\ tables = <<table>>
          /\ backend \in ResolveBackends(table)

Resolve ==
    /\ pc = "input"
    /\ \E out \in {extract_format(backend, tables[1])} :
          /\ pc' = IF IsRaise(out.value) THEN out.value.error ELSE "resolved"
          /\ result' = IF IsRaise(out.value) THEN NoResult ELSE out.value
          /\ handles' = handles + out.open
    /\ UNCHANGED gui_vars
    /\ UNCHANGED <<doc, tables, found, repetitions, modifications,
                   given_formats, backend, written>>

NextResolve == Resolve

SpecResolve == InitResolve /\ [][NextResolve]_vars

\* the decisions handed to apply_modifications: those analyze plans for
\* "Tabla 2. X" on pages 1 and 2 and "Cuadro 1. X" on page 3, the formats
\* being Arial 11, Times New Roman 10 bold and Arial 11
TimesBold10 ==
    [font_name |-> <<"T","i","m","e","s"," ","N","e","w"," ","R","o","m","a","n">>,
     font_size |-> 1000, is_bold |-> TRUE, is_italic |-> FALSE,
     color |-> <<0, 0, 255>>]

PlannedTables ==
    << _analyze_page(<<"T","a","b","l","a"," ","2","."," ","X">>, 1)[1],
       _analyze_page(<<"T","a","b","l","a"," ","2","."," ","X">>, 2)[1],
       _analyze_page(<<"C","u","a","d","r","o"," ","1","."," ","X">>, 3)[1] >>

PlannedModifications ==
    _create_modifications(PlannedTables,
                          find_consecutive_repetitions(PlannedTables),
                          <<Arial11, TimesBold10, Arial11>>)

\* the same decisions without a resolved format
UnformattedModifications ==
    _create_modifications(PlannedTables,
                          find_consecutive_repetitions(PlannedTables),
                          <<NoFormat, NoFormat, NoFormat>>)

ApplyInputs ==
    {SubSeq(PlannedModifications, 1, n) :
        n \in 0..Len(PlannedModifications)}
      \cup {UnformattedModifications}

\* the font names insert_text may be called with for these decisions
InsertFonts ==
    {DEFAULT_FONT_NAME} \cup
    {_get_font_name(_load_font_if_needed(ff, f), f) :
        ff \in BOOLEAN, f \in {Arial11, TimesBold10, Arial12}}

\* the write-path backend: the call that raises (the open, the save or
\* none), the page count, the pages whose title is found, whether the
\* system font files can be registered, the font names insert_text
\* rejects
ApplyBackends ==
    [fails        : {"none", "open", "save"},
     pages        : {1, 3},
     titles_found : SUBSET {1, 2, 3},
     font_files   : BOOLEAN,
     bad_fonts    : SUBSET InsertFonts]

\* apply_modifications applied to planned decisions; given_formats holds
\* the custom format when there is one
InitApply ==
    /\ IdleWindow
    /\ pc = "input"
    /\ doc = <<>>
    /\ tables = <<>>
    /\ found = <<>>
    /\ repetitions = <<>>
    /\ result = NoResult
    /\ handles = 0
    /\ written = NoWrites
    /\ modifications \in ApplyInputs
    /\ given_formats \in {<<>>, <<Arial12>>}
    /\ backend \in ApplyBackends

Apply ==
    /\ pc = "input"
    /\ \E out \in {apply_modifications(
                       backend, modifications,
                       IF given_formats = <<>> THEN NoFormat
                       ELSE given_formats[1])} :
          /\ pc' = IF out.raises # "" THEN out.raises ELSE "applied"
          /\ result' = IF out.raises # "" THEN NoResult
                       ELSE [applied |-> out.applied_count]
          /\ written' = [calls |-> out.calls, saved |-> out.saved]
          /\ handles' = handles + out.open
    /\ UNCHANGED gui_vars
    /\ UNCHANGED <<doc, tables, found, repetitions, modifications,
                   given_formats, backend>>

\* TableTitleRule.apply_with_format: the count of apply_modifications is
\* reduced to count > 0 and every exception to False
apply_with_format(b, mods, custom_format) ==
    LET out == apply_modifications(b, mods, custom_format)
    IN  IF out.raises # "" THEN FALSE ELSE out.applied_count > 0

ApplyWithFormat ==
    /\ pc = "input"
    /\ \E out \in {apply_modifications(
                       backend, modifications,
                       IF given_formats = <<>> THEN NoFormat
                       ELSE given_formats[1])} :
          /\ pc' = "rule_applied"
          /\ result' = [success |->
                           IF out.raises # "" THEN FALSE
                           ELSE out.applied_count > 0]
          /\ written' = [calls |-> out.calls, saved |-> out.saved]
          /\ handles' = handles + out.open
    /\ UNCHANGED gui_vars
    /\ UNCHANGED <<doc, tables, found, repetitions, modifications,
                   given_formats, backend>>

NextApply == Apply \/ ApplyWithFormat

SpecApply == InitApply /\ [][NextApply]_vars

\* The GUI (gui/main_window.py): the handlers run on the UI thread, one
\* at a time; analyses and applies run on worker threads that hand their
\* outcome back with self.after(0, ...). The progress notifications of an
\* analysis only update the loading panel and are left out; the file
\* dialogs and message boxes are answered within the handler that opens
\* them.

\* at most this many operations (threads, queued callbacks) in flight
MaxInFlight == 3

ReportPdf ==
    [text |-> <<"a",".","p","d","f">>, exists |-> TRUE, is_file |-> TRUE,
     suffix |-> <<".","p","d","f">>, size_mb |-> 1]

ThesisPdf ==
    [text |-> <<"b",".","P","D","F">>, exists |-> TRUE, is_file |-> TRUE,
     suffix |-> <<".","P","D","F">>, size_mb |-> 50]

\* what askopenfilename can return: a cancelled dialog, two PDF files, a
\* text file, a file of 51 MB, a directory, a name that does not exist
DialogPaths ==
    {[ReportPdf EXCEPT !.text = <<>>],
     ReportPdf, ThesisPdf,
     [ReportPdf EXCEPT !.text = <<"n",".","t","x","t">>,
                       !.suffix = <<".","t","x","t">>],
     [ReportPdf EXCEPT !.size_mb = 51],
     [ReportPdf EXCEPT !.is_file = FALSE],
     [ReportPdf EXCEPT !.exists = FALSE]}

\* what rule.analyze gives for a file: a result with or without
\* decisions to apply, or an exception. `of` is not a field of
\* AnalysisResult: it records the file the result was produced from.
AnalysisOutcomes(file) ==
    {[of |-> file, tables_to_modify |-> n] : n \in {0, 2}}
        \cup {Raises("PDFReadError")}

RemoveAt(seq, i) == SubSeq(seq, 1, i - 1) \o SubSeq(seq, i + 1, Len(seq))

Visible == window.scrollable_frame = "shown"

InitGui ==
    /\ Blank
    /\ doc = <<>>
    /\ tables = <<>>

\* MainWindow._analyze_pdf, called by _on_file_selected
_analyze_pdf(w, file_path) ==
    [w EXCEPT !.scrollable_frame = "hidden",
              !.apply_button = "disabled",
              !.browse_button = "disabled"]

\* FileSelector._browse_file with MainWindow._on_file_selected as its
\* callback: the browse button is clicked and the dialog answered
BrowseFile ==
    /\ Visible
    /\ window.browse_button = "normal"
    /\ Len(threads) + Len(events) < MaxInFlight
    /\ \E file_path \in DialogPaths :
          IF file_path.text = <<>>
             \/ IsRaise(validate_pdf_path(file_path))
          THEN UNCHANGED <<window, threads>>
          ELSE /\ window' = _analyze_pdf(
                               [window EXCEPT
                                   !.selected_file = file_path.text],
                               file_path.text)
               /\ threads' = Append(threads,
                                    [target |-> "analyze_thread",
                                     file_path |-> file_path.text])
    /\ UNCHANGED <<pc, doc, tables, found, repetitions, modifications,
                   result, given_formats, backend, handles, written,
                   events>>

\* analyze_thread: rule.analyze runs and its outcome is queued
AnalyzeThread ==
    /\ \E i \in 1..Len(threads) :
          /\ threads[i].target = "analyze_thread"
          /\ \E outcome \in AnalysisOutcomes(threads[i].file_path) :
                events' = Append(events,
                    IF IsRaise(outcome)
                    THEN [callback |-> "_on_analysis_error"]
                    ELSE [callback |-> "_on_analysis_complete",
                          result |-> outcome])
          /\ threads' = RemoveAt(threads, i)
    /\ UNCHANGED <<pc, doc, tables, found, repetitions, modifications,
                   result, given_formats, backend, handles, written,
                   window>>

_on_analysis_complete ==
    /\ events # <<>>
    /\ Head(events).callback = "_on_analysis_complete"
    /\ window' = [window EXCEPT
                     !.scrollable_frame = "shown",
                     !.current_result = Head(events).result,
                     !.apply_button =
                         IF Head(events).result.tables_to_modify > 0
                         THEN "normal" ELSE "disabled",
                     !.browse_button = "normal"]
    /\ events' = Tail(events)
    /\ UNCHANGED <<pc, doc, tables, found, repetitions, modifications,
                   result, given_formats, backend, handles, written,
                   threads>>

_on_analysis_error ==
    /\ events # <<>>
    /\ Head(events).callback = "_on_analysis_error"
    /\ window' = [window EXCEPT
                     !.scrollable_frame = "shown",
                     !.apply_button = "disabled",
                     !.browse_button = "normal"]
    /\ events' = Tail(events)
    /\ UNCHANGED <<pc, doc, tables, found, repetitions, modifications,
                   result, given_formats, backend, handles, written,
                   threads>>

\* a format control on the home view is changed
_on_format_changed ==
    /\ Visible
    /\ window' = IF /\ window.current_result # NoResult
                    /\ window.current_result.tables_to_modify > 0
                 THEN [window EXCEPT !.apply_button = "normal"]
                 ELSE window
    /\ UNCHANGED <<pc, doc, tables, found, repetitions, modifications,
                   result, given_formats, backend, handles, written,
                   threads, events>>

\* MainWindow._apply_modifications: the apply button is clicked and the
\* save dialog is answered with a path or cancelled
_apply_modifications ==
    /\ Visible
    /\ window.apply_button = "normal"
    /\ Len(threads) + Len(events) < MaxInFlight
    /\ \E output_path \in {<<>>, <<"o",".","p","d","f">>} :
          IF \/ window.selected_file = NoFile
             \/ window.current_result = NoResult
             \/ output_path = <<>>
          THEN UNCHANGED <<window, threads>>
          ELSE /\ window' = [window EXCEPT !.apply_button = "disabled"]
               /\ threads' = Append(threads,
                                    [target |-> "apply_thread",
                                     at |-> "start"])
    /\ UNCHANGED <<pc, doc, tables, found, repetitions, modifications,
                   result, given_formats, backend, handles, written,
                   events>>

\* apply_thread, first step: the decisions are read from
\* self.current_result
ApplyThreadReads ==
    /\ \E i \in 1..Len(threads) :
          /\ threads[i].target = "apply_thread"
          /\ threads[i].at = "start"
          /\ threads' = [threads EXCEPT ![i] =
                            [target |-> "apply_thread",
                             at |-> "apply_with_format",
                             modifications_of
                                 |-> window.current_result.of]]
    /\ UNCHANGED <<pc, doc, tables, found, repetitions, modifications,
                   result, given_formats, backend, handles, written,
                   window, events>>

\* apply_thread, second step: self.selected_file is read,
\* apply_with_format and _save_to_history run and the outcome is queued
ApplyThreadApplies ==
    /\ \E i \in 1..Len(threads) :
          /\ threads[i].target = "apply_thread"
          /\ threads[i].at = "apply_with_format"
          /\ \E outcome \in {"success", "failure", "error"} :
                events' = Append(events,
                    [callback |-> IF outcome = "error"
                                  THEN "_on_modification_error"
                                  ELSE "_on_modification_complete",
                     success |-> outcome = "success",
                     modifications_of |-> threads[i].modifications_of,
                     pdf_path |-> window.selected_file])
          /\ threads' = RemoveAt(threads, i)
    /\ UNCHANGED <<pc, doc, tables, found, repetitions, modifications,
                   result, given_formats, backend, handles, written,
                   window>>

_on_modification_complete ==
    /\ events # <<>>
    /\ Head(events).callback = "_on_modification_complete"
    /\ window' = [window EXCEPT !.apply_button = "normal"]
    /\ events' = Tail(events)
    /\ UNCHANGED <<pc, doc, tables, found, repetitions, modifications,
                   result, given_formats, backend, handles, written,
                   threads>>

_on_modification_error ==
    /\ events # <<>>
    /\ Head(events).callback = "_on_modification_error"
    /\ window' = [window EXCEPT !.apply_button = "normal"]
    /\ events' = Tail(events)
    /\ UNCHANGED <<pc, doc, tables, found, repetitions, modifications,
                   result, given_formats, backend, handles, written,
                   threads>>

\* the Home entry of the sidebar
_show_home ==
    /\ window' = [window EXCEPT !.scrollable_frame = "shown"]
    /\ UNCHANGED <<pc, doc, tables, found, repetitions, modifications,
                   result, given_formats, backend, handles, written,
                   threads, events>>

\* the Settings entry of the sidebar (Changes and Help do the same to the
\* home view)
_show_settings ==
    /\ window' = [window EXCEPT !.scrollable_frame = "hidden"]
    /\ UNCHANGED <<pc, doc, tables, found, repetitions, modifications,
                   result, given_formats, backend, handles, written,
                   threads, events>>

NextGui ==
    \/ BrowseFile
    \/ AnalyzeThread
    \/ _on_analysis_complete
    \/ _on_analysis_error
    \/ _on_format_changed
    \/ _apply_modifications
    \/ ApplyThreadReads
    \/ ApplyThreadApplies
    \/ _on_modification_complete
    \/ _on_modification_error
    \/ _show_home
    \/ _show_settings

SpecGui == InitGui /\ [][NextGui]_vars

\* Analysing the output of an apply: the decisions are carried out on
\* the page texts (the display string found on the page of the decision
\* is replaced by the replacement string, as _apply_single_modification
\* does with the first rectangle search_for finds) and the resulting
\* document is analysed again.

MaxReapplyPages == 3

\* the title lines of these documents: a title, the same title with a
\* position suffix, another title
ReapplyLines ==
    { <<"T","a","b","l","a"," ","2","."," ","X">>,
      <<"T","a","b","l","a"," ","2","."," ","X"," ","(","2","/","2",")">>,
      <<"C","u","a","d","r","o"," ","1","."," ","Y">> }

\* pages of one line or of two
ReapplyPageTexts ==
    {l \o <<"\n">> : l \in ReapplyLines}
        \cup {l1 \o <<"\n">> \o l2 \o <<"\n">> :
                 l1 \in ReapplyLines, l2 \in ReapplyLines}

ReapplyDocs ==
    UNION {[1..n -> ReapplyPageTexts] : n \in 1..MaxReapplyPages}

\* text with its first occurrence of old replaced by new
ReplaceFirst(text, old, new) ==
    LET a == Find(text, old)
    IN  IF a = 0 THEN text
        ELSE Slice(text, 1, a) \o new
                \o Slice(text, a + Len(old), Len(text) + 1)

\* the page texts after the decisions mods[k..] have been carried out
RECURSIVE TextsAfter(_, _, _)
TextsAfter(d, mods, k) ==
    IF k > Len(mods) THEN d
    ELSE IF ~needs_modification(mods[k]) \/ mods[k].page > Len(d)
    THEN TextsAfter(d, mods, k + 1)
    ELSE TextsAfter([d EXCEPT ![mods[k].page] =
                        ReplaceFirst(d[mods[k].page],
                                     mods[k].original_title,
                                     mods[k].modified_title)],
                    mods, k + 1)

\* the attempts of the decisions mods[k..], in order, against the page
\* texts d as they are when each decision is reached
RECURSIVE Replacements(_, _, _)
Replacements(d, mods, k) ==
    IF k > Len(mods) THEN <<>>
    ELSE IF ~needs_modification(mods[k]) \/ mods[k].page > Len(d)
    THEN Replacements(d, mods, k + 1)
    ELSE <<[call |-> "replace", page |-> mods[k].page,
            ok |-> Find(d[mods[k].page], mods[k].original_title) # 0]>>
            \o Replacements(TextsAfter(d, <<mods[k]>>, 1), mods, k + 1)

InitReapply ==
    /\ Blank
    /\ tables = <<>>
    /\ doc \in ReapplyDocs

\* TableTitleRule.analyze on the page texts, every format being the
\* default one
AnalyzeTexts(from, to) ==
    /\ pc = from
    /\ \E tbls \in {AnalyzePages(doc, Len(doc))} :
       \E reps \in {find_consecutive_repetitions(tbls)} :
       \E fmts \in {[k \in 1..Len(tbls) |-> DefaultFormat]} :
       \E mods \in {_create_modifications(tbls, reps, fmts)} :
           /\ tables' = tbls
           /\ repetitions' = reps
           /\ modifications' = mods
           /\ result' = AnalysisResult(
                            tbls, mods,
                            _check_format_uniformity(tbls, fmts),
                            _extract_format_info(tbls, fmts))
    /\ pc' = to
    /\ UNCHANGED gui_vars
    /\ UNCHANGED <<doc, found, given_formats, backend, handles, written>>

AnalyzeInput == AnalyzeTexts("input", "analysed")

ApplyVerbatim ==
    /\ pc = "analysed"
    /\ pc' = "applied"
    /\ doc' = TextsAfter(doc, modifications, 1)
    /\ written' = [calls |-> Replacements(doc, modifications, 1),
                   saved |-> TRUE]
    /\ UNCHANGED gui_vars
    /\ UNCHANGED <<tables, found, repetitions, modifications, result,
                   given_formats, backend, handles>>

AnalyzeOutput == AnalyzeTexts("applied", "reanalysed")

NextReapply == AnalyzeInput \/ ApplyVerbatim \/ AnalyzeOutput

SpecReapply == InitReapply /\ [][NextReapply]_vars

\* The progress notifications of TableTitleRule.analyze. The sink the
\* GUI passes queues every notification for the UI thread
\* (main_window.py:470-476), so `events` is the sequence of notifications
\* in the order they are made. Percentages are hundredths of a percent.

\* n occurrences of one title, on consecutive pages (one run) or on every
\* second page (n runs)
ProgressTables(n, spaced) ==
    [k \in 1..n |->
        _analyze_page(<<"T","a","b","l","a"," ","2","."," ","X">>,
                      IF spaced THEN 2 * k ELSE k)[1]]

Notify(message, progress) == [message |-> message, progress |-> progress]

\* 50 + rep_idx * 30 without the division by total_repetitions
CreationProgress_Unscaled(rep_idx, total_repetitions) ==
    5000 + rep_idx * 3000

\* progress = 50 + (rep_idx / total_repetitions) * 30
CreationProgress(rep_idx, total_repetitions) ==
    5000 + (rep_idx * 3000) \div total_repetitions

\* the notifications of the loop of _create_modifications from rep_idx
\* on: one for every fifth run; the loop ends at the first extract_format
\* that raises
RECURSIVE CreationReports(_, _, _)
CreationReports(rep_idx, total_repetitions, raises) ==
    IF rep_idx >= total_repetitions THEN <<>>
    ELSE (IF rep_idx % 5 = 0
          THEN <<Notify("Processing table",
                        CreationProgress(rep_idx, total_repetitions))>>
          ELSE <<>>)
         \o (IF raises THEN <<>>
             ELSE CreationReports(rep_idx + 1, total_repetitions, raises))

\* progress = 90 + int((idx / sample_size) * 10)
UniformityProgress(idx, sample_size) ==
    (90 + (idx * 10) \div sample_size) * 100

\* the notifications of the loop of _check_format_uniformity from idx on:
\* extract_format comes first, then one notification for every fifth
\* occurrence
RECURSIVE UniformityReports(_, _, _)
UniformityReports(idx, sample_size, raises) ==
    IF idx >= sample_size \/ raises THEN <<>>
    ELSE (IF idx % 5 = 0
          THEN <<Notify("Checking format uniformity (idx)",
                        UniformityProgress(idx, sample_size))>>
          ELSE <<>>)
         \o UniformityReports(idx + 1, sample_size, raises)

\* the document (how many occurrences, how they are spread) and the call
\* that raises, if any: the read of the document or the first
\* extract_format of one of the three phases that resolve formats
ProgressBackends ==
    [n      : 0..MaxOccurrences,
     spaced : BOOLEAN,
     fails  : {"none", "read", "create", "extract", "check"}]

InitProgress ==
    /\ IdleWindow
    /\ pc = "input"
    /\ doc = <<>>
    /\ tables = <<>>
    /\ found = <<>>
    /\ repetitions = <<>>
    /\ modifications = <<>>
    /\ result = NoResult
    /\ given_formats = <<>>
    /\ handles = 0
    /\ written = NoWrites
    /\ backend \in ProgressBackends

\* analyze, lines 52-53
ReportReading ==
    /\ pc = "input"
    /\ pc' = "reading"
    /\ events' = Append(events, Notify("Reading PDF document...", 1000))
    /\ UNCHANGED <<doc, tables, found, repetitions, modifications, result,
                   given_formats, backend, handles, written, window,
                   threads>>

\* analyze, lines 55-62
DetectTables ==
    /\ pc = "reading"
    /\ IF backend.fails = "read"
       THEN /\ pc' = "PDFReadError"
            /\ UNCHANGED <<tables, events>>
       ELSE /\ pc' = "grouping"
            /\ tables' = ProgressTables(backend.n, backend.spaced)
            /\ events' = Append(events,
                                Notify("Found n table(s)", 3000))
    /\ UNCHANGED <<doc, found, repetitions, modifications, result,
                   given_formats, backend, handles, written, window,
                   threads>>

\* analyze, lines 64-68
FindRuns ==
    /\ pc = "grouping"
    /\ pc' = "creating"
    /\ repetitions' = find_consecutive_repetitions(tables)
    /\ events' = Append(events, Notify("Creating modifications...", 5000))
    /\ UNCHANGED <<doc, tables, found, modifications, result,
                   given_formats, backend, handles, written, window,
                   threads>>

\* analyze, lines 70-76
CreateModifications ==
    /\ pc = "creating"
    /\ \E raises \in {backend.fails = "create" /\ tables # <<>>} :
          /\ events' = events
                \o CreationReports(0, Len(repetitions), raises)
                \o (IF raises THEN <<>>
                    ELSE <<Notify("Extracting format information...",
                                  8000)>>)
          /\ pc' = IF raises THEN "FormatDetectionError" ELSE "extracting"
          /\ modifications' =
                IF raises THEN modifications
                ELSE _create_modifications(
                        tables, repetitions,
                        [k \in 1..Len(tables) |-> DefaultFormat])
          /\ handles' = IF raises THEN handles + 1 ELSE handles
    /\ UNCHANGED <<doc, tables, found, repetitions, result, given_formats,
                   backend, written, window, threads>>

\* analyze, lines 78-82
ExtractFormatInfo ==
    /\ pc = "extracting"
    /\ \E raises \in {backend.fails = "extract" /\ tables # <<>>} :
          /\ events' = IF raises THEN events
                       ELSE Append(events,
                                   Notify("Checking format uniformity...",
                                          9000))
          /\ pc' = IF raises THEN "FormatDetectionError" ELSE "checking"
          /\ handles' = IF raises THEN handles + 1 ELSE handles
    /\ UNCHANGED <<doc, tables, found, repetitions, modifications, result,
                   given_formats, backend, written, window, threads>>

\* analyze, lines 84-97
CheckFormatUniformity ==
    /\ pc = "checking"
    /\ \E raises \in {backend.fails = "check" /\ tables # <<>>} :
       \E fmts \in {[k \in 1..Len(tables) |-> DefaultFormat]} :
          /\ events' = events
                \o UniformityReports(
                      0, Len(Prefix(tables, UniformitySample)), raises)
                \o (IF raises THEN <<>>
                    ELSE <<Notify("Analysis complete!", 10000)>>)
          /\ pc' = IF raises THEN "FormatDetectionError" ELSE "done"
          /\ result' = IF raises THEN result
                       ELSE AnalysisResult(
                               tables, modifications,
                               _check_format_uniformity(tables, fmts),
                               _extract_format_info(tables, fmts))
          /\ handles' = IF raises THEN handles + 1 ELSE handles
    /\ UNCHANGED <<doc, tables, found, repetitions, modifications,
                   given_formats, backend, written, window, threads>>

NextProgress ==
    \/ ReportReading
    \/ DetectTables
    \/ FindRuns
    \/ CreateModifications
    \/ ExtractFormatInfo
    \/ CheckFormatUniformity

SpecProgress == InitProgress /\ [][NextProgress]_vars

-----------------------------------------------------------------------------
(* Properties of find_consecutive_repetitions (SpecGroup) *)

\* sum of the first k run lengths
RECURSIVE SumCounts(_, _)
SumCounts(reps, k) ==
    IF k = 0 THEN 0 ELSE SumCounts(reps, k - 1) + reps[k].count

\* 1-based index at which run k starts when the runs are laid end to end
RunStart(reps, k) == 1 + SumCounts(reps, k - 1)

\* C1: the emitted (representative, run length) pairs exactly partition the
\* input: every run length is >= 1, the run lengths sum to the length of
\* the sequence, and run k starts at the index given by the sum of the
\* earlier run lengths, where its representative is found.
C1_RunsPartitionInput ==
    pc = "grouped" =>
        /\ \A k \in 1..Len(repetitions) : repetitions[k].count >= 1
        /\ SumCounts(repetitions, Len(repetitions)) = Len(tables)
        /\ \A k \in 1..Len(repetitions) :
              /\ RunStart(repetitions, k) <= Len(tables)
              /\ repetitions[k].table = tables[RunStart(repetitions, k)]

C1_Witness ==
    /\ pc = "grouped"
    /\ Len(repetitions) >= 3
    /\ \E k \in 1..Len(repetitions) : repetitions[k].count >= 2
    /\ repetitions[1].count = 1

\* the same title on pages 2, 3 and 5
SkipsPage4 ==
    /\ Len(tables) = 3
    /\ tables[1].full_title = tables[2].full_title
    /\ tables[2].full_title = tables[3].full_title
    /\ tables[1].page = 2 /\ tables[2].page = 3 /\ tables[3].page = 5

\* C2: every run consists of occurrences with the representative's display
\* string on strictly consecutive pages (member m of the run is on page
\* first.page + m); identical titles on pages 2, 3, 5 give a run of length
\* 2 followed by a run of length 1.
C2_RunsSameTitleConsecutivePages ==
    pc = "grouped" =>
        /\ \A k \in 1..Len(repetitions) :
              \A m \in 0..(repetitions[k].count - 1) :
                 LET idx == RunStart(repetitions, k) + m IN
                 /\ idx <= Len(tables)
                 /\ tables[idx].full_title = repetitions[k].table.full_title
                 /\ tables[idx].page = repetitions[k].table.page + m
        /\ SkipsPage4 =>
              /\ Len(repetitions) = 2
              /\ repetitions[1].count = 2 /\ repetitions[1].table.page = 2
              /\ repetitions[2].count = 1 /\ repetitions[2].table.page = 5

C2_Witness ==
    /\ pc = "grouped"
    /\ SkipsPage4
    /\ Len(repetitions) = 2

-----------------------------------------------------------------------------
(* Properties of TableTitleRule.analyze (Spec) *)

\* the page-position suffix " (i/n)" for single-digit i and n
Suffix(i, n) ==
    <<" ", "(", DigitChars[i + 1], "/", DigitChars[n + 1], ")">>

\* C3: whenever the same canonical display string occurs on two
\* consecutive pages p and p+1, analyze marks both occurrences as needing
\* rewriting and gives each a page-position suffix "(k/n)".
C3_ConsecutiveRepeatsRewritten ==
    pc = "done" =>
        \A i, j \in 1..Len(result.all_tables) :
            (/\ result.all_tables[i].full_title
                    = result.all_tables[j].full_title
             /\ result.all_tables[j].page = result.all_tables[i].page + 1)
            => \A k \in {i, j} :
                  LET d == result.modifications[k] IN
                  /\ needs_modification(d)
                  /\ d.modified_title
                        = d.original_title
                            \o Suffix(d.repetition_number, d.total_repetitions)

\* C4: for every run of length n > 1 there are exactly n decisions, in page
\* order, the i-th with replacement string = that occurrence's display
\* string + " (" + i + "/" + n + ")", position i and total n; a run of
\* length 3 titled "Cuadro 1. X" gives the suffixes (1/3), (2/3), (3/3).
C4_SuffixFormat ==
    pc = "done" =>
        /\ Len(modifications) = SumCounts(repetitions, Len(repetitions))
        /\ \A k \in 1..Len(repetitions) :
              LET n == repetitions[k].count IN
              n > 1 =>
                \A i \in 1..n :
                   LET idx == RunStart(repetitions, k) + i - 1 IN
                   /\ idx <= Len(modifications)
                   /\ idx <= Len(tables)
                   /\ n < 10
                   /\ modifications[idx].page = repetitions[k].table.page + i - 1
                   /\ modifications[idx].modified_title
                         = tables[idx].full_title \o Suffix(i, n)
                   /\ modifications[idx].repetition_number = i
                   /\ modifications[idx].total_repetitions = n

C4_Witness ==
    /\ pc = "done"
    /\ Len(modifications) = 3
    /\ modifications[1].modified_title = <<"C","u","a","d","r","o"," ","1","."," ","X"," ","(","1","/","3",")">>
    /\ modifications[2].modified_title = <<"C","u","a","d","r","o"," ","1","."," ","X"," ","(","2","/","3",")">>
    /\ modifications[3].modified_title = <<"C","u","a","d","r","o"," ","1","."," ","X"," ","(","3","/","3",")">>
    /\ modifications[1].page = 1
    /\ modifications[2].page = 2
    /\ modifications[3].page = 3

\* C5: a decision has an absent position iff its total run length is 1,
\* and then its replacement string is its original string; a decision with
\* a position has total >= 2 and 1 <= position <= total.
C5_PositionAbsentIffSingle ==
    pc = "done" =>
        \A k \in 1..Len(result.modifications) :
            LET d == result.modifications[k] IN
            /\ (d.repetition_number = None) <=> (d.total_repetitions = 1)
            /\ d.repetition_number = None
                  => d.modified_title = d.original_title
            /\ d.repetition_number # None
                  => /\ d.total_repetitions >= 2
                     /\ 1 <= d.repetition_number
                     /\ d.repetition_number <= d.total_repetitions

C5_Witness ==
    /\ pc = "done"
    /\ \E k \in 1..Len(result.modifications) :
          /\ result.modifications[k].repetition_number = None
          /\ result.modifications[k].modified_title
                = result.modifications[k].original_title
    /\ \E k \in 1..Len(result.modifications) :
          result.modifications[k].repetition_number = 2

\* C6: analyze produces exactly one decision per occurrence, in the same
\* order: decision k carries the page and the display string of
\* occurrence k.
C6_OneDecisionPerOccurrence ==
    pc = "done" =>
        /\ Len(result.modifications) = Len(result.all_tables)
        /\ \A k \in 1..Len(result.all_tables) :
              /\ k <= Len(result.modifications)
              /\ result.modifications[k].page = result.all_tables[k].page
              /\ result.modifications[k].original_title
                    = result.all_tables[k].full_title

C6_Witness ==
    /\ pc = "done"
    /\ Len(result.all_tables) >= 4
    /\ Len(result.modifications) = Len(result.all_tables)
    /\ \E k \in 1..Len(result.modifications) :
          result.modifications[k].repetition_number = 2
    /\ \E k \in 1..Len(result.modifications) :
          result.modifications[k].repetition_number = None

\* sum of the lengths of the runs longer than 1 among the first k runs
RECURSIVE SumLongRuns(_, _)
SumLongRuns(reps, k) ==
    IF k = 0 THEN 0
    ELSE SumLongRuns(reps, k - 1)
            + (IF reps[k].count > 1 THEN reps[k].count ELSE 0)

\* number of decisions with a position among the first k decisions
RECURSIVE CountNumbered(_, _)
CountNumbered(mods, k) ==
    IF k = 0 THEN 0
    ELSE CountNumbered(mods, k - 1)
            + (IF mods[k].repetition_number # None THEN 1 ELSE 0)

\* the document of the end-to-end scenario: the same title on pages 1 and
\* 2, no title on page 3
TwoPageTable ==
    /\ Len(doc) = 3
    /\ doc[1] = <<"T","a","b","l","a"," ","2","."," ","R","e","s","u","l","t","a","d","o","s","\n">>
    /\ doc[2] = doc[1]
    /\ doc[3] = NotePage

\* C7: total_tables is the length of the occurrence list and
\* tables_to_modify the number of decisions that need rewriting, which is
\* the sum of the lengths of the runs longer than 1; the same title on
\* pages 1 and 2 of a 3-page document gives 2 and 2, with replacements
\* ending in "(1/2)" and "(2/2)".
C7_DerivedCounts ==
    pc = "done" =>
        /\ result.total_tables = Len(result.all_tables)
        /\ result.tables_to_modify
              = CountNumbered(result.modifications, Len(result.modifications))
        /\ result.tables_to_modify
              = SumLongRuns(repetitions, Len(repetitions))
        /\ TwoPageTable =>
              /\ result.total_tables = 2
              /\ result.tables_to_modify = 2
              /\ result.modifications[1].modified_title = <<"T","a","b","l","a"," ","2","."," ","R","e","s","u","l","t","a","d","o","s"," ","(","1","/","2",")">>
              /\ result.modifications[2].modified_title = <<"T","a","b","l","a"," ","2","."," ","R","e","s","u","l","t","a","d","o","s"," ","(","2","/","2",")">>

C7_Witness ==
    /\ pc = "done"
    /\ TwoPageTable
    /\ result.total_tables = 2
    /\ result.tables_to_modify = 2

-----------------------------------------------------------------------------
(* Properties of the extractor (SpecExtract) *)

\* the character of the page text right after the number of match m is a
\* period
PeriodFollowsNumber(t, m) == m.numEnd <= Len(t) /\ t[m.numEnd] = "."

\* C8: the canonical display string is "<TypeWord> <number>. <description>"
\* if and only if the character immediately following the number in the
\* source text is a period, and "<TypeWord> <number> <description>"
\* otherwise.
C8_SeparatorFidelity ==
    pc = "scanned" =>
        \A k \in 1..Len(tables) :
            LET ti == tables[k]
                m  == found[k].m
                t  == doc[found[k].page]
            IN  ti.full_title
                  = ti.table_type \o <<" ">> \o ti.number
                       \o (IF PeriodFollowsNumber(t, m)
                           THEN <<".", " ">> ELSE <<" ">>)
                       \o ti.description

\* the text starts with a line "<word> <digit>.<character>", <word> being
\* one of Words
TitleLine(t, w) ==
    /\ OccursAt(t, w, 1)
    /\ Len(t) >= Len(w) + 4
    /\ t[Len(w) + 1] = " "
    /\ IsDigit(t[Len(w) + 2])
    /\ t[Len(w) + 3] = "."
    /\ t[Len(w) + 4] # "\n"

\* C9: a page line beginning with "Table <digits>", as well as one
\* beginning with "Cuadro <digits>", in any letter case, produces one
\* occurrence whose type-word is the canonical capitalized form, whose
\* number is a non-empty digit string and whose page is >= 1.
C9_VocabularyCoversTable ==
    pc = "scanned" =>
        \A w \in Words :
            TitleLine(doc[1], w) =>
                /\ Len(tables) >= 1
                /\ tables[1].position = 0
                /\ tables[1].table_type = Capitalize(w)
                /\ Len(tables[1].number) >= 1
                /\ \A i \in 1..Len(tables[1].number) :
                      IsDigit(tables[1].number[i])
                /\ tables[1].page >= 1

\* C10: the type-word, the number, the separator and the description of
\* one occurrence never span a newline.
C10_MatchWithinOneLine ==
    pc = "scanned" =>
        \A k \in 1..Len(found) :
            \A i \in found[k].m.start..(found[k].m.descEnd - 1) :
                doc[found[k].page][i] # "\n"

-----------------------------------------------------------------------------
(* Properties of the format reductions (SpecFormat) *)

SizeDiff(a, b) ==
    IF a.font_size >= b.font_size THEN a.font_size - b.font_size
    ELSE b.font_size - a.font_size

\* tolerant equality as the specification words it; sizes are hundredths
\* of a point, so 0.1 is 10
TolerantEqual(a, b) ==
    /\ a.font_name = b.font_name
    /\ a.is_bold = b.is_bold
    /\ a.is_italic = b.is_italic
    /\ SizeDiff(a, b) < 10

\* C11: two formats are equal exactly when font names, bold flags and
\* italic flags are identical and the sizes differ by less than 0.1, the
\* color being ignored (sizes 0.05 apart with different colors are equal,
\* sizes 1.0 apart are not); check_uniformity is true iff every element
\* equals the first one, and is true for the empty list.
C11_TolerantEqualityAndUniformity ==
    pc = "reduced" =>
        LET fs == given_formats IN
        /\ \A i, j \in 1..Len(fs) :
              /\ result.equal[i][j] <=> TolerantEqual(fs[i], fs[j])
              /\ (/\ SizeDiff(fs[i], fs[j]) = 5
                  /\ fs[i].color # fs[j].color
                  /\ [fs[i] EXCEPT !.font_size = 0, !.color = <<>>]
                        = [fs[j] EXCEPT !.font_size = 0, !.color = <<>>])
                 => result.equal[i][j]
              /\ SizeDiff(fs[i], fs[j]) = 100 => ~result.equal[i][j]
        /\ result.uniform <=> \A k \in 1..Len(fs) : result.equal[k][1]
        /\ fs = <<>> => result.uniform

\* a uniform list of three whose members differ in size and color
C11_Witness ==
    /\ pc = "reduced"
    /\ Len(given_formats) = 3
    /\ result.uniform
    /\ SizeDiff(given_formats[1], given_formats[2]) = 5
    /\ given_formats[1].color # given_formats[2].color
    /\ given_formats[3] = given_formats[1]

\* C12: the hash is consistent with the tolerant equality: whenever a
\* equals b, hash(a) = hash(b).
C12_HashConsistentWithEquality ==
    pc = "reduced" =>
        \A i, j \in 1..Len(given_formats) :
            result.equal[i][j] => result.hash[i] = result.hash[j]

\* index of the first element of the list that fs[k] is tolerantly equal
\* to: the group of fs[k]
GroupOf(fs, k) ==
    CHOOSE j \in 1..k :
        /\ TolerantEqual(fs[j], fs[k])
        /\ \A h \in 1..(j - 1) : ~TolerantEqual(fs[h], fs[k])

GroupSize(fs, g) == Cardinality({k \in 1..Len(fs) : GroupOf(fs, k) = g})

\* the first-encountered group among those with the most members
LargestGroup(fs) ==
    CHOOSE g \in 1..Len(fs) :
        /\ GroupOf(fs, g) = g
        /\ \A h \in 1..Len(fs) : GroupSize(fs, h) <= GroupSize(fs, g)
        /\ \A h \in 1..(g - 1) : GroupSize(fs, h) < GroupSize(fs, g)

\* C13: get_common_format returns absent only for the empty list;
\* otherwise it returns a descriptor of the tolerant-equality group with
\* the most members, the first-encountered one among tied groups.
C13_CommonFormatOfLargestGroup ==
    pc = "reduced" =>
        /\ result.common = NoFormat <=> given_formats = <<>>
        /\ given_formats # <<>> =>
              TolerantEqual(result.common,
                            given_formats[LargestGroup(given_formats)])

-----------------------------------------------------------------------------
(* Properties of _check_format_uniformity (SpecUniform) *)

\* the formats of the first 20 occurrences
First20(fs) == IF Len(fs) <= 20 THEN fs ELSE SubSeq(fs, 1, 20)

\* C14: the uniformity verdict depends only on the first 20 occurrences:
\* any other document whose first 20 occurrences resolve to the same
\* formats gets the same format_uniform, however its later occurrences are
\* formatted; so a document whose first 20 occurrences are identically
\* formatted is reported uniform even if a later occurrence differs.
C14_UniformityOfFirst20 ==
    pc = "checked" =>
        /\ \A gs \in UniformFormatSeqs :
              First20(gs) = First20(given_formats) =>
                 _check_format_uniformity(OccurrencesOn(Len(gs)), gs)
                    = result.format_uniform
        /\ (/\ Len(given_formats) >= 20
            /\ \A k \in 1..20 : given_formats[k] = given_formats[1])
           => result.format_uniform

\* 22 occurrences, the 21st bold, reported uniform
C14_Witness ==
    /\ pc = "checked"
    /\ Len(given_formats) = 22
    /\ given_formats[21].is_bold /\ ~given_formats[1].is_bold
    /\ result.format_uniform

-----------------------------------------------------------------------------
(* Properties of extract_format (SpecResolve) *)

\* the searches in the claimed order
SearchOrder(title) ==
    <<title, RStripPeriods(title), BaseTitle(title)>>

\* a search yields a format: it finds an instance whose expanded rectangle
\* holds a span with a font name and a positive size
Yields(hit, needle) ==
    hit[needle].found /\ \E k \in 1..Len(hit[needle].spans) :
                            ValidSpan(hit[needle].spans[k])

FirstValidSpan(spans) ==
    spans[CHOOSE k \in 1..Len(spans) :
            /\ ValidSpan(spans[k])
            /\ \A j \in 1..(k - 1) : ~ValidSpan(spans[j])]

\* C15: extract_format tries the searches in the order full title, title
\* without trailing period, "<TypeWord> <Number>" prefix and stops at the
\* first that yields a format, which is its result; when the full-title
\* search finds nothing and the prefix search finds a rectangle with an
\* "ArialMT" span of size 12.0, not bold, not italic, the result is
\* "Arial", 12.0, not bold, not italic.
C15_FirstSearchYieldingFormat ==
    (pc # "input" /\ backend.fails = "none") =>
        LET title == tables[1].full_title
            order == SearchOrder(title)
            hit   == backend.hit
        IN  /\ \A k \in 1..3 :
                  (/\ Yields(hit, order[k])
                   /\ \A j \in 1..(k - 1) : ~Yields(hit, order[j]))
                  => /\ pc = "resolved"
                     /\ result = _create_format_info(
                                     FirstValidSpan(hit[order[k]].spans))
            /\ (/\ ~hit[order[1]].found
                /\ ~hit[order[2]].found
                /\ Yields(hit, order[3])
                /\ FirstValidSpan(hit[order[3]].spans) = SpanArialMT)
               => /\ pc = "resolved"
                  /\ result.font_name = <<"A","r","i","a","l">>
                  /\ result.font_size = 1200
                  /\ ~result.is_bold /\ ~result.is_italic

C19_HandlesClosedOnExit ==
    pc # "input" => handles = 0

-----------------------------------------------------------------------------
(* Error handling of TableTitleRule.analyze (Spec) *)

\* C17: once every page has been read, analyze does not fail because of
\* the format resolution of an occurrence: it returns a complete result.
C17_FormatFailuresAbsorbed ==
    (pc # "input" /\ backend.failAt > Len(doc)) =>
        /\ pc = "done"
        /\ result # NoResult
        /\ result.total_tables = Len(tables)
        /\ Len(result.modifications) = Len(tables)

\* C18: when the backend fails at the open or at the read of a page,
\* analyze aborts with PDFReadError and returns nothing: no result, no
\* decision list, no grouping of the occurrences read before the failure.
C18_ReadFailureReturnsNothing ==
    (pc # "input" /\ backend.failAt <= Len(doc)) =>
        /\ pc = "PDFReadError"
        /\ result = NoResult
        /\ modifications = <<>>
        /\ repetitions = <<>>

\* the read of a later page fails after occurrences were found
C18_Witness ==
    /\ pc = "PDFReadError"
    /\ backend.failAt >= 2
    /\ tables # <<>>
    /\ result = NoResult

-----------------------------------------------------------------------------
(* Properties of PDFModifier.apply_modifications (SpecApply) *)

\* the insert_text calls made on a page, in order
InsertsOn(calls, page) ==
    LET onPage(c) == c.call = "insert_text" /\ c.page = page
    IN  SelectSeq(calls, onPage)

\* the decisions apply_modifications gets as far as replacing when no
\* decision stops the loop: they need a modification, their page exists
\* and their title is found
Attempted(mods, b) ==
    {k \in 1..Len(mods) :
        /\ needs_modification(mods[k])
        /\ mods[k].page <= b.pages
        /\ mods[k].page \in b.titles_found}

\* C20: when the insertion with the requested font fails it is retried
\* exactly once with the default font; when the retry fails too, only
\* that occurrence is given up: the loop goes on with the remaining
\* decisions, the document is saved and the count of successful
\* modifications is returned.
C20_InsertionFailureIsPerOccurrence ==
    (pc \in {"applied", "ModificationError"} /\ backend.fails = "none") =>
        LET done == Attempted(modifications, backend) IN
        /\ \A k \in done :
              LET ins == InsertsOn(written.calls, modifications[k].page) IN
              /\ Len(ins) >= 1
              /\ ins[1].ok => Len(ins) = 1
              /\ ~ins[1].ok => /\ Len(ins) = 2
                               /\ ins[2].fontname = DEFAULT_FONT_NAME
        /\ pc = "applied"
        /\ written.saved
        /\ result = [applied |->
                        Cardinality({k \in done :
                            \E i \in 1..Len(written.calls) :
                                /\ written.calls[i].call = "insert_text"
                                /\ written.calls[i].page
                                      = modifications[k].page
                                /\ written.calls[i].ok})]

\* the decisions that need a modification
Needing(mods) == {k \in 1..Len(mods) : needs_modification(mods[k])}

\* what the caller of apply_with_format gets when the document cannot be
\* opened or saved: every exception is turned into False
DocumentFailureOutcome ==
    [success |-> apply_with_format([backend EXCEPT !.fails = "save"],
                                   modifications, NoFormat)]

\* C21: an apply in which none of the N decisions could be applied, the
\* title being found for no occurrence, completes without an exception
\* and its outcome, as the caller of apply_with_format gets it, differs
\* from the outcome of a document that cannot be opened or saved.
C21_ZeroAppliedDistinctFromFailure ==
    (/\ pc = "rule_applied"
     /\ backend.fails = "none"
     /\ Needing(modifications) # {}
     /\ Attempted(modifications, backend) = {})
        => result # DocumentFailureOutcome

\* C22: a page number below 1 or above the page count of the document,
\* or a font size that is not in (0, 72], is never skipped or accepted:
\* the apply ends in a ValidationError before any call of the backend.
C22_PreconditionViolationsRaise ==
    (/\ pc \in {"applied", "ModificationError", "ValidationError"}
     /\ backend.fails = "none"
     /\ \/ \E k \in Needing(modifications) :
              IsRaise(validate_page_number(modifications[k].page,
                                           backend.pages))
        \/ \E k \in 1..Len(given_formats) :
              IsRaise(validate_font_size(given_formats[k].font_size)))
        => /\ pc = "ValidationError"
           /\ written = NoWrites
           /\ handles = 0

-----------------------------------------------------------------------------
(* Maximality of the runs (SpecGroup) *)

\* the page of the last occurrence of run k
LastPage(reps, k) == reps[k].table.page + reps[k].count - 1

\* C23: the runs are maximal: for every two adjacent runs, the first
\* occurrence of the later run does not continue the earlier one (its
\* display string differs, or its page is not the page after the last
\* page of the earlier run), so that no two adjacent runs could be merged.
C23_RunsAreMaximal ==
    pc = "grouped" =>
        \A k \in 1..(Len(repetitions) - 1) :
            \/ repetitions[k + 1].table.full_title
                  # repetitions[k].table.full_title
            \/ repetitions[k + 1].table.page
                  # LastPage(repetitions, k) + 1

\* a run of two followed by the same title after a gap, and a run
\* followed on the next page by another title
C23_Witness ==
    /\ pc = "grouped"
    /\ \E k \in 1..(Len(repetitions) - 1) :
          /\ repetitions[k].count >= 2
          /\ repetitions[k + 1].table.full_title
                = repetitions[k].table.full_title
          /\ repetitions[k + 1].table.page > LastPage(repetitions, k) + 1
    /\ \E k \in 1..(Len(repetitions) - 1) :
          /\ repetitions[k + 1].table.full_title
                # repetitions[k].table.full_title
          /\ repetitions[k + 1].table.page = LastPage(repetitions, k) + 1

-----------------------------------------------------------------------------
(* Retrying after a hit without valid span (SpecResolve) *)

\* C24: a full-title search hit whose expanded rectangle holds no valid
\* span is treated like no hit: the search is retried with the trailing
\* period stripped and then with the "<TypeWord> <Number>" prefix before
\* the page is scanned, so that the first of these later searches that
\* yields a format gives the result.
C24_HitWithoutValidSpanIsRetried ==
    (/\ pc # "input"
     /\ backend.fails = "none"
     /\ backend.hit[tables[1].full_title].found
     /\ ~Yields(backend.hit, tables[1].full_title)) =>
        LET order == SearchOrder(tables[1].full_title)
            hit   == backend.hit
        IN  \A k \in 2..3 :
                (/\ Yields(hit, order[k])
                 /\ \A j \in 2..(k - 1) : ~Yields(hit, order[j]))
                => /\ pc = "resolved"
                   /\ result = _create_format_info(
                                   FirstValidSpan(hit[order[k]].spans))

-----------------------------------------------------------------------------
(* Frame and format precedence of apply_modifications (SpecApply) *)

\* the format a decision is written with: the user's override when one
\* is supplied, otherwise the decision's own resolved format, otherwise
\* the default descriptor
ExpectedFormat(mod, custom) ==
    IF custom # <<>> THEN custom[1]
    ELSE IF mod.format_info # NoFormat THEN mod.format_info
    ELSE DefaultFormat

-----------------------------------------------------------------------------
(* Background operations of the GUI (SpecGui) *)

\* the operations in flight: the worker threads that run and the
\* completion or error callbacks that wait for the UI thread
InFlight == Len(threads) + Len(events)

\* C26: the GUI serializes its background operations: from the start of
\* an analysis or apply worker until its completion or error callback has
\* run on the UI thread no other worker is started, so that at most one
\* operation is in flight, under every interleaving of user actions and
\* worker callbacks.
C26_BackgroundOperationsSerialized ==
    InFlight <= 1

\* C27: the apply button is never enabled while current_result belongs to
\* another file than selected_file, and every apply worker applies
\* decisions that a successful analysis produced for the very file it
\* passes as input.
C27_DecisionsBelongToSelectedFile ==
    /\ (window.apply_button = "normal"
        /\ window.current_result # NoResult)
          => window.current_result.of = window.selected_file
    /\ \A k \in 1..Len(events) :
          events[k].callback \in {"_on_modification_complete",
                                  "_on_modification_error"}
             => events[k].modifications_of = events[k].pdf_path

-----------------------------------------------------------------------------
(* Analysing the output of an apply (SpecReapply) *)

\* C28: analysing and applying is idempotent on its own output: when
\* every decision that needs rewriting has been carried out verbatim (its
\* display string on its page replaced by its replacement string), the
\* analysis of the resulting page texts has no decision that needs
\* rewriting, for every input document.
C28_ReanalysisNeedsNoRewriting ==
    (/\ pc = "reanalysed"
     /\ \A i \in 1..Len(written.calls) : written.calls[i].ok)
        => result.tables_to_modify = 0

-----------------------------------------------------------------------------
(* Progress notifications of analyze (SpecProgress) *)

\* the notifications of 100 percent
Completions == {k \in 1..Len(events) : events[k].progress = 10000}

\* C29: during an analyze call with a progress sink the percentages
\* reported are non-decreasing values between 10 and 100, the first being
\* 10; 100 ("Analysis complete!") is reported exactly once, as the last
\* notification, and only when analyze returns an outcome, never before a
\* failure is raised.
C29_ProgressMonotoneAndComplete ==
    /\ \A k \in 1..Len(events) :
          /\ events[k].progress >= 1000
          /\ events[k].progress <= 10000
          /\ k > 1 => events[k - 1].progress <= events[k].progress
    /\ pc # "input" => events[1].progress = 1000
    /\ Completions # {} =>
          /\ pc = "done"
          /\ Completions = {Len(events)}
          /\ events[Len(events)].message = "Analysis complete!"
    /\ pc = "done" => Completions = {Len(events)}
    /\ pc \in {"PDFReadError", "FormatDetectionError"} => Completions = {}

\* a completed analysis of more than 20 occurrences in as many runs: both
\* loops have reported several times
C29_Witness ==
    /\ pc = "done"
    /\ Len(tables) > 20
    /\ Len(repetitions) = Len(tables)
    /\ Cardinality({k \in 1..Len(events) :
                       events[k].message = "Processing table"}) >= 5
    /\ Cardinality({k \in 1..Len(events) :
                       events[k].message
                          = "Checking format uniformity (idx)"}) = 4

-----------------------------------------------------------------------------
(* Order independence of check_uniformity (SpecFormat) *)

\* C30: the verdict of check_uniformity does not depend on the order of
\* its input: the list in every other order gets the same boolean, and a
\* true verdict implies that every two formats of the list are equal
\* under the tolerant equality.
C30_UniformityIsOrderIndependent ==
    pc = "reduced" =>
        /\ result.reordered = {result.uniform}
        /\ result.uniform =>
              \A i, j \in 1..Len(given_formats) :
                 TolerantEqual(given_formats[i], given_formats[j])

====
